---- MODULE Spec2Model ----
(***************************************************************************)
(* Model of web-ext's "run" machinery:                                     *)
(*   - defaultFirefoxClient, the bounded connection retrier of             *)
(*     src/cmd/run.js;                                                     *)
(*   - MultiExtensionRunner of src/extension-runners/index.js, which fans  *)
(*     run / reload / exit / registerCleanup out over its member runners.  *)
(*                                                                         *)
(* Promises are modelled by their state ("pending", "resolved",            *)
(* "rejected") and their value.  A promise reaction (a then-callback, the  *)
(* continuation of an await, the completion of Promise.all) runs in the    *)
(* microtask checkpoint of the settlement that triggers it, before any     *)
(* other timer or I/O event is handled, so it is part of the action that   *)
(* settles the promise.  A promise that never settles is a "pending" state *)
(* that no action leaves: no specification below assumes fairness.         *)
(***************************************************************************)
EXTENDS Integers, Sequences, FiniteSets, TLC

VARIABLES
    \* ---- defaultFirefoxClient (src/cmd/run.js, unnamed/part_000) ----
    retrier,         \* which defaultFirefoxClient was called: "loop" is the
                     \* one of src/cmd/run.js, "recursive" the one of
                     \* unnamed/part_000
    maxRetries,      \* the maxRetries parameter of the call
    retries,         \* the loop counter of establishConnection
    lastError,       \* the lastError local of establishConnection (loop)
    caughtError,     \* the error caught by the catch block, while it sleeps
    connectCalls,    \* number of connectToFirefox() invocations so far
    connectLog,      \* outcome of every settled connectToFirefox() invocation
    fcState,         \* "idle", "connecting", "sleeping", "resolved", "rejected"
    fcResult,        \* the value or the reason of the returned promise
    fcParams,        \* the parameter object defaultFirefoxClient was given
    retryInterval,   \* the retryInterval parameter of the call
    timers,          \* the delay of every setTimeout() call so far
    \* ---- MultiExtensionRunner (src/extension-runners/index.js) ----
    extensionRunners,  \* this.extensionRunners: the member runners, in order
    mrCall,            \* the request being tracked: [op, sourceDir]
    mrState,           \* state of the promise the request returned
    mrValue,           \* its value (results) or its rejection reason
    memberCalls,       \* per member: invocations of its method by the request
    memberState,       \* per member: state of the promise its method returned
    memberReason,      \* per member: the reason its promise rejected with
    results,           \* per member: value of its reloadPromise, once settled
    settleOrder,       \* the members in the order their promises settled
    notifications,     \* desktopNotifications() calls made by the request
    \* ---- MultiExtensionRunner.registerCleanup ----
    cleanupCallbacks,  \* per member: the callbacks registered on it, in order
    cleanupRuns,       \* per member: how many times it ran its callbacks
    resolvedBy,        \* per registration: members whose promise is resolved
    cleanupCalled,     \* per registration: invocations of cleanupCallback
    \* ---- the run command (src/cmd/run.js, unnamed/part_000) ----
    runImpl,           \* which run() was called: "current" is the one of
                       \* src/cmd/run.js, "legacy" the one of unnamed/part_000
    runParams,         \* the parameters of the call
    runPc,             \* the call run() is awaiting, or "idle", "resolved",
                       \* "rejected"
    runResult,         \* the reason the promise of run() rejected with
    rejection,         \* the awaited call that rejected, and its reason
    runLog,            \* the calls run() made on its collaborators, in order
    noReload,          \* the noReload local of run()
    installed,         \* the installed local of run()
    addonId,           \* the addonId local of run(); "" while undefined
    manifestData,      \* the manifest run() validated: [id]
    installedAddon,    \* the id under which the browser installed the add-on
    firefoxProcess,    \* "none", "running", "closed"
    client,            \* "none", "connected", "disconnected"
    watcher,           \* "none", "open", "closed"
    changes,           \* per source-change notification: how far its
                       \* onChange handler got
    reloadAddonCalls,  \* the client.reloadAddon() calls, in order
    runNotifications,  \* desktopNotifications() calls of defaultAddonReload
    keyLoop,           \* the keypress loop of run(): "none", "waiting",
                       \* "reloading", "stopped", "failed"
    keyLog,            \* the keypress events stdin emitted, in order, each
                       \* with whether the loop heard it
    stdinState,        \* stdin of run(): [rawMode, paused]
    firefoxKilled,     \* whether the loop called runningFirefox.kill()
    \* ---- ChromiumExtensionRunner (src/extension-runners/chromium) ----
    chromiumState,     \* "created", "running", "exiting", "exited"
    chromiumProcess,   \* the browser process: "none", "alive", "closed"
    killPending,       \* whether exit() is awaiting chromiumInstance.kill()
    connections,       \* per companion connection: "none", "open", "closed"
    delivered,         \* per companion connection: the messages sent to it,
                       \* each with the index of the request that sent it
    reloadRequests,    \* the reload requests made on the runner, in order
    chromiumCallbacks, \* the registered cleanup callbacks, in order
    chromiumCleanupLog,\* the cleanup callbacks invoked, in order
    exitLog,           \* exit() entries, kills, teardowns and 'close' events
    \* ---- defaultReloadStrategy (src/extension-runners/index.js) ----
    strategy,          \* the parameters of the call: [noInput, isTTY,
                       \* sourceDir], once it is made
    sourceWatcher,     \* the watcher: "none", "open", "closed"
    rawMode,           \* whether stdin is in raw mode
    stdinPaused,       \* whether stdin.pause() was called
    keypressListener,  \* whether the once('keypress') listener is attached
    loop,              \* the keypress loop: "none", "waiting", "stopped"
    runnerCalls,       \* the calls made on extensionRunner, in order
    signals,           \* the signals sent with kill(), in order
    fileEvents,        \* the files the file system reported as changed
    keysEmitted,       \* the keypress events emitted by stdin, in order
    terminalLog,       \* the setRawMode() and kill() calls, in order
    reloadsPending,    \* the reload promises of the runner not yet settled
    \* ---- firefox.run and installExtension (src/firefox/index.js) ----
    launches,          \* the run() calls made so far, one record each
    install,           \* the installExtension() call: its caller, its
                       \* parameter object, how far it got, its outcome
    extensionsDir,     \* the profile's extensions directory: whether it
                       \* exists, and the files in it with their content
    \* ---- defaultRemotePortFinder (src/firefox/index.js) ----
    finders            \* the defaultRemotePortFinder() calls made so far

retryVars == <<retrier, maxRetries, retries, lastError, caughtError, connectCalls,
               connectLog, fcState, fcResult, fcParams, retryInterval, timers>>
callVars == <<mrCall, mrState, mrValue, memberCalls, memberState,
              memberReason, results, settleOrder, notifications>>
cleanupVars == <<cleanupCallbacks, cleanupRuns, resolvedBy, cleanupCalled>>
runVars == <<runImpl, runParams, runPc, runResult, rejection, runLog, noReload, installed,
             addonId, manifestData, installedAddon, firefoxProcess, client,
             watcher, changes, reloadAddonCalls, runNotifications, keyLoop,
             keyLog, stdinState, firefoxKilled>>
loopVars == <<keyLoop, keyLog, stdinState, firefoxKilled>>
chromiumVars == <<chromiumState, chromiumProcess, killPending, connections,
                  delivered, reloadRequests, chromiumCallbacks,
                  chromiumCleanupLog, exitLog>>
strategyVars == <<strategy, sourceWatcher, rawMode, stdinPaused,
                  keypressListener, loop, runnerCalls, signals, fileEvents,
                  keysEmitted, terminalLog, reloadsPending>>
firefoxVars == <<launches, install, extensionsDir>>
finderVars == <<finders>>
vars == <<retryVars, extensionRunners, callVars, cleanupVars, runVars,
          chromiumVars, strategyVars, firefoxVars, finderVars>>
multiVars == <<extensionRunners, callVars, cleanupVars>>
\* What the actions of one part of the model leave alone.
notRetryVars == <<multiVars, runVars, chromiumVars, strategyVars, firefoxVars,
                  finderVars>>
notCallVars == <<retryVars, extensionRunners, cleanupVars, runVars,
                 chromiumVars, strategyVars, firefoxVars, finderVars>>
notCleanupVars == <<retryVars, extensionRunners, callVars, runVars,
                    chromiumVars, strategyVars, firefoxVars, finderVars>>
notRunVars == <<retryVars, multiVars, chromiumVars, strategyVars, firefoxVars,
                finderVars>>
notChromiumVars == <<retryVars, multiVars, runVars, strategyVars, firefoxVars,
                     finderVars>>
notStrategyVars == <<retryVars, multiVars, runVars, chromiumVars, firefoxVars,
                     finderVars>>
notFirefoxVars == <<retryVars, multiVars, runVars, chromiumVars, strategyVars,
                    finderVars>>
notFinderVars == <<retryVars, multiVars, runVars, chromiumVars, strategyVars,
                   firefoxVars>>

\* JavaScript's undefined.
Undefined == [undefined |-> TRUE]

MaxConnections == 2

\* The companion connections the WebSocket server may accept.
Connections == 1..MaxConnections

\* The Chromium runner once constructed.
ChromiumIdle ==
    /\ chromiumState = "created"
    /\ chromiumProcess = "none"
    /\ killPending = FALSE
    /\ connections = [c \in Connections |-> "none"]
    /\ delivered = [c \in Connections |-> <<>>]
    /\ reloadRequests = <<>>
    /\ chromiumCallbacks = <<>>
    /\ chromiumCleanupLog = <<>>
    /\ exitLog = <<>>

\* Before defaultReloadStrategy() is called.
StrategyIdle ==
    /\ strategy = Undefined
    /\ sourceWatcher = "none"
    /\ rawMode = FALSE
    /\ stdinPaused = FALSE
    /\ keypressListener = FALSE
    /\ loop = "none"
    /\ runnerCalls = <<>>
    /\ signals = <<>>
    /\ fileEvents = <<>>
    /\ keysEmitted = <<>>
    /\ terminalLog = <<>>
    /\ reloadsPending = 0

\* No run() and no installExtension() of src/firefox/index.js was called;
\* the profile has an empty extensions directory.
FirefoxIdle ==
    /\ launches = <<>>
    /\ install = Undefined
    /\ extensionsDir = [exists |-> TRUE, files |-> {}]

\* No defaultRemotePortFinder() was called.
FinderIdle == finders = <<>>

\* The run command before run() is called.
RunIdle ==
    /\ runImpl = "none"
    /\ runParams = Undefined
    /\ runPc = "idle"
    /\ runResult = Undefined
    /\ rejection = Undefined
    /\ runLog = <<>>
    /\ noReload = FALSE
    /\ installed = FALSE
    /\ addonId = ""
    /\ manifestData = Undefined
    /\ installedAddon = ""
    /\ firefoxProcess = "none"
    /\ client = "none"
    /\ watcher = "none"
    /\ changes = <<>>
    /\ reloadAddonCalls = <<>>
    /\ runNotifications = <<>>
    /\ keyLoop = "none"
    /\ keyLog = <<>>
    /\ stdinState = [rawMode |-> FALSE, paused |-> FALSE]
    /\ firefoxKilled = FALSE

(***************************************************************************)
(* Bounds of the model.                                                    *)
(***************************************************************************)
\* Largest maxRetries a call of defaultFirefoxClient is given.
MaxRetriesBound == 4
\* Largest number of member runners of a MultiExtensionRunner.
MaxRunners == 3
\* Largest number of registerCleanup() calls on a MultiExtensionRunner.
MaxRegistrations == 2
\* Largest number of times one member runs its cleanup callbacks.
MaxCleanupRuns == 2

(***************************************************************************)
(* defaultFirefoxClient                                                    *)
(*                                                                         *)
(* The repository holds two retriers: the loop of src/cmd/run.js and the   *)
(* recursive establishConnection of unnamed/part_000.  A call picks one;   *)
(* connectToFirefox() is the caller's and settles either way.              *)
(***************************************************************************)

\* The error codes connectToFirefox() fails with; "NONE" is an error that
\* has no code property.
ErrorCodes == {"ECONNREFUSED", "ECONNRESET", "NONE"}

\* The error thrown by the n-th connectToFirefox() invocation.
ConnectError(code, n) == [code |-> code, attempt |-> n]

\* The client the n-th connectToFirefox() invocation resolves with.
ConnectedClient(n) == [client |-> n]

\* isErrorWithCode(codeWanted, error) of ../errors.
isErrorWithCode(codeWanted, error) == error.code = codeWanted

\* Plausible bug: every connection error is retried.
ShouldRetryAnyError(error) == TRUE

\* catch (error) { if (isErrorWithCode('ECONNREFUSED', error)) ... }
ShouldRetry(error) == isErrorWithCode("ECONNREFUSED", error)

\* Plausible bug: the loop bound is off by one (retries < maxRetries).
LoopConditionOffByOne(r, m) == r < m

\* for (...; retries <= maxRetries; ...)
LoopCondition(r, m) == r <= m

\* Plausible bug: lastError keeps the first refusal instead of the last.
AssignLastErrorKeepFirst(last, error) == IF last = Undefined THEN error ELSE last

\* lastError = error;
AssignLastError(last, error) == error

\* The body of the for loop up to its await: when the loop condition holds
\* connectToFirefox() is invoked, otherwise the loop is left and lastError
\* is thrown.
\* The default values of the destructured parameters of
\* defaultFirefoxClient: maxRetries = 250, retryInterval = 120 in
\* src/cmd/run.js, maxRetries=25, retryInterval=120 in unnamed/part_000.
DefaultMaxRetries == 250

DefaultRetryInterval == 120

DefaultMaxRetries_legacy == 25

DefaultRetryInterval_legacy == 120

DefaultedToZero(params, name, default) ==
    IF name \in DOMAIN params THEN params[name] ELSE 0

\* A destructured parameter with a default value: the default is taken
\* when the object passed has no such property.
Defaulted(params, name, default) ==
    IF name \in DOMAIN params THEN params[name] ELSE default

\* The parameter objects of the calls: connectToFirefox is always passed;
\* maxRetries is passed alone or with a retryInterval (of 1 ms, as in the
\* tests of unnamed/part_001), or neither is passed.
ConnectorOnly == [connectToFirefox |-> "connectToFirefox"]

GivenParams ==
    {[connectToFirefox |-> "connectToFirefox", maxRetries |-> m] :
         m \in 0..MaxRetriesBound}
    \cup {[connectToFirefox |-> "connectToFirefox", maxRetries |-> m,
           retryInterval |-> 1] : m \in 0..MaxRetriesBound}

\* setTimeout(resolve, retryInterval): the delay asked for is recorded.
setTimeout(log, delay) == Append(log, delay)

LoopStep(r, last, m) ==
    IF LoopCondition(r, m)
    THEN /\ connectCalls' = connectCalls + 1
         /\ fcState' = "connecting"
         /\ fcResult' = fcResult
    ELSE /\ connectCalls' = connectCalls
         /\ fcState' = "rejected"
         /\ fcResult' = last

\* defaultFirefoxClient({connectToFirefox, maxRetries, retryInterval}):
\* establishConnection() runs up to its first await.
defaultFirefoxClient(params) ==
    /\ fcState = "idle"
    /\ retrier' = "loop"
    /\ fcParams' = params
    /\ maxRetries' = Defaulted(params, "maxRetries", DefaultMaxRetries)
    /\ retryInterval' =
           Defaulted(params, "retryInterval", DefaultRetryInterval)
    /\ retries' = 0
    /\ lastError' = Undefined
    /\ LoopStep(0, Undefined, maxRetries')
    /\ UNCHANGED <<caughtError, connectLog, timers, notRetryVars>>

\* connectToFirefox() resolves: return await connectToFirefox();
ConnectResolves ==
    /\ retrier = "loop"
    /\ fcState = "connecting"
    /\ connectLog' = Append(connectLog, ConnectedClient(connectCalls))
    /\ fcState' = "resolved"
    /\ fcResult' = ConnectedClient(connectCalls)
    /\ UNCHANGED <<fcParams, retryInterval, timers, retrier, maxRetries,
                   retries, lastError, caughtError, connectCalls,
                   notRetryVars>>

\* connectToFirefox() rejects: the catch block runs up to its await of the
\* retry timer, or rethrows.
ConnectRejects(code) ==
    /\ retrier = "loop"
    /\ fcState = "connecting"
    /\ LET error == ConnectError(code, connectCalls) IN
       /\ connectLog' = Append(connectLog, error)
       /\ IF ShouldRetry(error)
          THEN /\ fcState' = "sleeping"
               /\ timers' = setTimeout(timers, retryInterval)
               /\ caughtError' = error
               /\ fcResult' = fcResult
          ELSE /\ fcState' = "rejected"
               /\ timers' = timers
               /\ fcResult' = error
               /\ caughtError' = caughtError
    /\ UNCHANGED <<fcParams, retryInterval, retrier, maxRetries, retries,
                   lastError, connectCalls, notRetryVars>>

\* setTimeout(resolve, retryInterval) fires: lastError is recorded, the
\* loop increments retries and runs its next iteration up to the await.
RetryTimerFires ==
    /\ retrier = "loop"
    /\ fcState = "sleeping"
    /\ lastError' = AssignLastError(lastError, caughtError)
    /\ retries' = retries + 1
    /\ LoopStep(retries + 1, lastError', maxRetries)
    /\ UNCHANGED <<fcParams, retryInterval, timers, retrier, maxRetries,
                   caughtError, connectLog, notRetryVars>>

\* onlyErrorsWithCode(codeWanted, handler) of ../errors: the handler is run
\* for an error with that code, any other error is thrown again.
onlyErrorsWithCode(codeWanted, error) == isErrorWithCode(codeWanted, error)

\* Plausible bug: the recursive retrier allows one retry more (retries >
\* maxRetries).
TooManyRetriesOffByOne(r, m) == r > m

\* if (retries >= maxRetries) { throw error; }
TooManyRetries(r, m) == r >= m

\* defaultFirefoxClient of unnamed/part_000: retries = 0 and the first
\* establishConnection() invokes connectToFirefox().
defaultFirefoxClient_recursive(params) ==
    /\ fcState = "idle"
    /\ retrier' = "recursive"
    /\ fcParams' = params
    /\ maxRetries' = Defaulted(params, "maxRetries", DefaultMaxRetries_legacy)
    /\ retryInterval' =
           Defaulted(params, "retryInterval", DefaultRetryInterval_legacy)
    /\ retries' = 0
    /\ connectCalls' = connectCalls + 1
    /\ fcState' = "connecting"
    /\ UNCHANGED <<lastError, caughtError, connectLog, fcResult, timers,
                   notRetryVars>>

\* .then((connectedClient) => { resolve(connectedClient); })
ConnectResolves_recursive ==
    /\ retrier = "recursive"
    /\ fcState = "connecting"
    /\ connectLog' = Append(connectLog, ConnectedClient(connectCalls))
    /\ fcState' = "resolved"
    /\ fcResult' = ConnectedClient(connectCalls)
    /\ UNCHANGED <<fcParams, retryInterval, timers, retrier, maxRetries,
                   retries, lastError, caughtError, connectCalls,
                   notRetryVars>>

\* The two catch handlers: a refusal is thrown again when the retries are
\* used up and arms the retry timer otherwise; any other error passes
\* through onlyErrorsWithCode; what is thrown reaches reject(error).
ConnectRejects_recursive(code) ==
    /\ retrier = "recursive"
    /\ fcState = "connecting"
    /\ LET error == ConnectError(code, connectCalls) IN
       /\ connectLog' = Append(connectLog, error)
       /\ IF /\ onlyErrorsWithCode("ECONNREFUSED", error)
             /\ ~TooManyRetries(retries, maxRetries)
          THEN /\ fcState' = "sleeping"
               /\ timers' = setTimeout(timers, retryInterval)
               /\ caughtError' = error
               /\ fcResult' = fcResult
          ELSE /\ fcState' = "rejected"
               /\ timers' = timers
               /\ fcResult' = error
               /\ caughtError' = caughtError
    /\ UNCHANGED <<fcParams, retryInterval, retrier, maxRetries, retries,
                   lastError, connectCalls, notRetryVars>>

\* setTimeout(() => { retries ++; resolve(establishConnection()); })
RetryTimerFires_recursive ==
    /\ retrier = "recursive"
    /\ fcState = "sleeping"
    /\ retries' = retries + 1
    /\ connectCalls' = connectCalls + 1
    /\ fcState' = "connecting"
    /\ UNCHANGED <<fcParams, retryInterval, timers, retrier, maxRetries,
                   lastError, caughtError, connectLog, fcResult,
                   notRetryVars>>

\* No retrier has been called.
RetryIdle ==
    /\ retrier = "none"
    /\ maxRetries = 0
    /\ retries = 0
    /\ lastError = Undefined
    /\ caughtError = Undefined
    /\ connectCalls = 0
    /\ connectLog = <<>>
    /\ fcState = "idle"
    /\ fcResult = Undefined
    /\ fcParams = Undefined
    /\ retryInterval = 0
    /\ timers = <<>>


(***************************************************************************)
(* MultiExtensionRunner                                                    *)
(*                                                                         *)
(* The member runners are objects behind the IExtensionRunner interface:   *)
(* each of their methods returns a promise, which the member later        *)
(* resolves, rejects, or leaves pending for ever.  One request (one call   *)
(* of run, reloadAllExtensions, reloadExtensionBySourceDir or exit) is     *)
(* tracked at a time: every call builds its own promises array and the     *)
(* class keeps no state between calls, so requests do not interact.        *)
(***************************************************************************)

\* The members, by their index in this.extensionRunners.
Runners == 1..Len(extensionRunners)

\* runner.getName() of a member: members have distinct names here, so that
\* an outcome attributed to the wrong runner shows.
getName(runner) == <<"runner", extensionRunners[runner]>>

\* The sourceDir arguments of reloadExtensionBySourceDir; the empty string
\* is the falsy one.
SourceDirs == {"", "/src/ext"}

\* The values a member's promise rejects with: an Error instance, or a
\* value that is not an Error.
RejectionReasons ==
    { [instanceOfError |-> TRUE, message |-> "reload failed"],
      [instanceOfError |-> FALSE, message |-> Undefined] }

ReloadOps == {"reloadAllExtensions", "reloadExtensionBySourceDir"}

\* Plausible bug: the loop awaits each member before invoking the next, so
\* only the first member is invoked when the call is made.
InvokedByLoopAwaitingEach(runners) == {r \in runners : r = 1}

\* for (const runner of this.extensionRunners) { promises.push(...) }
\* the members whose method the loop invokes before the first await.
InvokedByLoop(runners) == runners

\* Plausible bug: the callbacks close over a function-scoped loop variable
\* (var runner), so every outcome names the last member.
ReloadAllOutcomeLastRunner(runner, st, reason) ==
    IF st = "resolved"
    THEN [runnerName |-> getName(Len(extensionRunners))]
    ELSE [runnerName |-> getName(Len(extensionRunners)),
          reloadError |-> reason]

\* The two callbacks of runner.reloadAllExtensions().then(..., ...).
ReloadAllOutcome(runner, st, reason) ==
    IF st = "resolved"
    THEN [runnerName |-> getName(runner)]
    ELSE [runnerName |-> getName(runner), reloadError |-> reason]

\* The two callbacks of runner.reloadExtensionBySourceDir(sourceDir).then(..., ...).
ReloadBySourceDirOutcome(runner, st, reason, sourceDir) ==
    IF st = "resolved"
    THEN [runnerName |-> getName(runner), sourceDir |-> sourceDir]
    ELSE [runnerName |-> getName(runner), reloadError |-> reason,
          sourceDir |-> sourceDir]

\* Plausible bug: then() is given the success callback only, so a member's
\* rejection passes through reloadPromise.
ReloadPromiseStateNoErrorCallback(st) ==
    IF st \in {"resolved", "rejected"} THEN st ELSE "pending"

\* State of reloadPromise: then() is given both callbacks and both return
\* a value, so it resolves whichever way the member's promise settles.
ReloadPromiseState(st) ==
    IF st \in {"resolved", "rejected"} THEN "resolved" ELSE "pending"

\* Plausible bug: run() collects failures like the reload methods do.
RunPromiseStateSwallowed(st) ==
    IF st \in {"resolved", "rejected"} THEN "resolved" ELSE "pending"

\* promises.push(runner.run()): the member's own promise.
RunPromiseState(st) ==
    IF st \in {"resolved", "rejected"} THEN st ELSE "pending"

\* promises.push(runner.exit()): the member's own promise.
ExitPromiseState(st) ==
    IF st \in {"resolved", "rejected"} THEN st ELSE "pending"

\* State of the i-th element of the promises array of a request.
PromiseState(op, st) ==
    CASE op \in ReloadOps -> ReloadPromiseState(st)
      [] op = "run" -> RunPromiseState(st)
      [] op = "exit" -> ExitPromiseState(st)

\* The first member of the settle order whose element of promises is
\* rejected (0 when there is none).
RECURSIVE FirstRejected(_, _, _)
FirstRejected(op, mstate, order) ==
    IF order = <<>> THEN 0
    ELSE IF PromiseState(op, mstate[Head(order)]) = "rejected"
         THEN Head(order)
         ELSE FirstRejected(op, mstate, Tail(order))

\* The array Promise.all(promises) resolves with: the elements' values in
\* the order of the promises array, whatever order they settled in.
PromiseAllValues(values, order) ==
    [i \in DOMAIN values |-> values[i]]

\* The sourceDir part of the message: if (sourceDir) { ... }
MessageSourceDir(outcome) ==
    IF "sourceDir" \in DOMAIN outcome /\ outcome.sourceDir # ""
    THEN <<outcome.sourceDir>>
    ELSE <<>>

\* handleReloadResults(results): the desktopNotifications() calls it makes,
\* in order.  The message is kept as the tuple of its parts.
handleReloadResults(res) ==
    LET IsError(outcome) ==
            /\ "reloadError" \in DOMAIN outcome
            /\ outcome.reloadError.instanceOfError
        failed == SelectSeq(res, IsError)
    IN [i \in 1..Len(failed) |->
          [title |-> "web-ext run: extension reload error",
           message |-> <<"Error occurred while reloading",
                         MessageSourceDir(failed[i]),
                         failed[i].runnerName,
                         failed[i].reloadError.message>>]]

\* await Promise.all(promises) and what follows it: the state and value of
\* the promise the request returned and the notifications raised, given
\* the members' promises and the order they settled in.  Promise.all
\* rejects with the reason of the first element that rejects and resolves
\* once every element is resolved.
Settlement(op, mstate, mreason, values, order) ==
    LET rejected == FirstRejected(op, mstate, order)
        allResolved == \A r \in DOMAIN mstate :
                           PromiseState(op, mstate[r]) = "resolved"
    IN IF rejected # 0
       THEN [state |-> "rejected", value |-> mreason[rejected],
             notifications |-> <<>>]
       ELSE IF allResolved
       THEN IF op \in ReloadOps
            THEN [state |-> "resolved",
                  value |-> PromiseAllValues(values, order),
                  notifications |->
                      handleReloadResults(PromiseAllValues(values, order))]
            ELSE [state |-> "resolved", value |-> Undefined,
                  notifications |-> <<>>]
       ELSE [state |-> "pending", value |-> Undefined,
             notifications |-> <<>>]

\* The synchronous part of a request: the loop invokes the members and the
\* method awaits Promise.all(promises).
Request(op, sourceDir) ==
    LET invoked == InvokedByLoop(Runners)
        mstate == [r \in Runners |->
                      IF r \in invoked THEN "pending" ELSE "idle"]
        none == [r \in Runners |-> Undefined]
        s == Settlement(op, mstate, none, none, <<>>)
    IN /\ mrCall' = [op |-> op, sourceDir |-> sourceDir]
       /\ memberCalls' = [r \in Runners |-> IF r \in invoked THEN 1 ELSE 0]
       /\ memberState' = mstate
       /\ memberReason' = none
       /\ results' = none
       /\ settleOrder' = <<>>
       /\ mrState' = s.state
       /\ mrValue' = s.value
       /\ notifications' = s.notifications
       /\ UNCHANGED notCallVars

\* async run()
MultiExtensionRunner_run == Request("run", Undefined)

\* async reloadAllExtensions()
MultiExtensionRunner_reloadAllExtensions ==
    Request("reloadAllExtensions", Undefined)

\* async reloadExtensionBySourceDir(sourceDir)
MultiExtensionRunner_reloadExtensionBySourceDir(sourceDir) ==
    Request("reloadExtensionBySourceDir", sourceDir)

\* async exit()
MultiExtensionRunner_exit == Request("exit", Undefined)

\* The value of the member's element of promises once the member's promise
\* has settled as st: the outcome object for a reload, nothing otherwise.
ElementValue(runner, st, reason) ==
    CASE mrCall.op = "reloadAllExtensions" ->
             ReloadAllOutcome(runner, st, reason)
      [] mrCall.op = "reloadExtensionBySourceDir" ->
             ReloadBySourceDirOutcome(runner, st, reason, mrCall.sourceDir)
      [] OTHER -> Undefined

\* A member's promise settles as st: its then-callback builds the outcome
\* and the request's Promise.all is completed if this decides it.
MemberSettles(runner, st, reason) ==
    /\ mrCall # Undefined
    /\ memberState[runner] = "pending"
    /\ memberState' = [memberState EXCEPT ![runner] = st]
    /\ memberReason' = [memberReason EXCEPT ![runner] = reason]
    /\ results' = [results EXCEPT ![runner] = ElementValue(runner, st, reason)]
    /\ settleOrder' = Append(settleOrder, runner)
    /\ LET s == Settlement(mrCall.op, memberState', memberReason', results',
                           settleOrder')
       IN /\ mrState' = s.state
          /\ mrValue' = s.value
          /\ notifications' = s.notifications
    /\ UNCHANGED <<mrCall, memberCalls, notCallVars>>

\* The promise returned by a member's method resolves.
MemberResolves(runner) == MemberSettles(runner, "resolved", Undefined)

\* The promise returned by a member's method rejects.
MemberRejects(runner, reason) == MemberSettles(runner, "rejected", reason)

\* A MultiExtensionRunner that has handled no request yet.
CallIdle ==
    /\ mrCall = Undefined
    /\ mrState = "idle"
    /\ mrValue = Undefined
    /\ memberCalls = [r \in Runners |-> 0]
    /\ memberState = [r \in Runners |-> "idle"]
    /\ memberReason = [r \in Runners |-> Undefined]
    /\ results = [r \in Runners |-> Undefined]
    /\ settleOrder = <<>>
    /\ notifications = <<>>

\* No cleanup callback registered, no member has cleaned up.
CleanupIdle ==
    /\ cleanupCallbacks = [r \in Runners |-> <<>>]
    /\ cleanupRuns = [r \in Runners |-> 0]
    /\ resolvedBy = <<>>
    /\ cleanupCalled = <<>>

\* constructor(params): this.extensionRunners = params.runners
Constructed ==
    \E n \in 0..MaxRunners : extensionRunners = [i \in 1..n |-> i]

InitMulti ==
    /\ RetryIdle
    /\ Constructed
    /\ CallIdle
    /\ CleanupIdle
    /\ RunIdle
    /\ ChromiumIdle
    /\ StrategyIdle
    /\ FirefoxIdle
    /\ FinderIdle

NextMulti ==
    \/ MultiExtensionRunner_run
    \/ MultiExtensionRunner_reloadAllExtensions
    \/ \E sourceDir \in SourceDirs :
           MultiExtensionRunner_reloadExtensionBySourceDir(sourceDir)
    \/ MultiExtensionRunner_exit
    \/ \E runner \in Runners : MemberResolves(runner)
    \/ \E runner \in Runners, reason \in RejectionReasons :
           MemberRejects(runner, reason)

SpecMulti == InitMulti /\ [][NextMulti]_vars

\* The retrier on its own: no MultiExtensionRunner exists.
InitRetry ==
    /\ RetryIdle
    /\ extensionRunners = <<>>
    /\ CallIdle
    /\ CleanupIdle
    /\ RunIdle
    /\ ChromiumIdle
    /\ StrategyIdle
    /\ FirefoxIdle
    /\ FinderIdle

NextRetry ==
    \/ \E params \in GivenParams : defaultFirefoxClient(params)
    \/ ConnectResolves
    \/ \E code \in ErrorCodes : ConnectRejects(code)
    \/ RetryTimerFires
    \/ \E params \in GivenParams : defaultFirefoxClient_recursive(params)
    \/ ConnectResolves_recursive
    \/ \E code \in ErrorCodes : ConnectRejects_recursive(code)
    \/ RetryTimerFires_recursive

SpecRetry == InitRetry /\ [][NextRetry]_vars

(***************************************************************************)
(* Claims about defaultFirefoxClient, checked under SpecRetry.             *)
(***************************************************************************)

IsClient(x) == "client" \in DOMAIN x

IsRefusedAttempt(x) == ~IsClient(x) /\ x.code = "ECONNREFUSED"

\* The first k settled connection attempts were all refused.
FirstRefused(k) ==
    /\ k <= Len(connectLog)
    /\ \A i \in 1..k : IsRefusedAttempt(connectLog[i])

AllRefused == FirstRefused(Len(connectLog))

\* C1: for every maxRetries >= 0 and k <= maxRetries, k refused attempts
\* followed by a successful one give exactly k+1 connectToFirefox()
\* invocations and a promise resolved with the client of the successful
\* attempt; while at most maxRetries attempts were refused the retrier has
\* not given up (the next attempt is in flight or its timer is pending).
C1_RefusedThenConnected ==
    /\ (fcState # "idle" /\ AllRefused /\ Len(connectLog) <= maxRetries)
          => /\ fcState \in {"connecting", "sleeping"}
             /\ connectCalls \in {Len(connectLog), Len(connectLog) + 1}
    /\ \A k \in 0..maxRetries :
          (/\ FirstRefused(k)
           /\ Len(connectLog) > k
           /\ IsClient(connectLog[k + 1]))
          => /\ connectCalls = k + 1
             /\ Len(connectLog) = k + 1
             /\ fcState = "resolved"
             /\ fcResult = connectLog[k + 1]

\* maxRetries = 3, three refusals, then success: four invocations.
C1_Witness ==
    /\ retrier = "loop"
    /\ maxRetries = 3
    /\ FirstRefused(3)
    /\ Len(connectLog) = 4
    /\ IsClient(connectLog[4])
    /\ connectCalls = 4
    /\ fcState = "resolved"

\* C2: for every maxRetries >= 0, when every attempt is refused there are
\* never more than maxRetries+1 connectToFirefox() invocations, and the
\* promise rejects only after exactly maxRetries+1 of them, with the
\* refusal error of the last attempt.
C2_AlwaysRefusedGivesUp ==
    /\ connectCalls <= maxRetries + 1
    /\ (fcState # "idle" /\ AllRefused /\ Len(connectLog) = maxRetries + 1)
          => /\ fcState \in {"sleeping", "rejected"}
             /\ connectCalls = maxRetries + 1
    /\ (fcState = "rejected" /\ AllRefused)
          => /\ Len(connectLog) = maxRetries + 1
             /\ connectCalls = maxRetries + 1
             /\ fcResult = connectLog[Len(connectLog)]

\* maxRetries = 2, always refused: rejected after three invocations.
C2_Witness ==
    /\ retrier = "loop"
    /\ maxRetries = 2
    /\ AllRefused
    /\ connectCalls = 3
    /\ fcState = "rejected"
    /\ fcResult = ConnectError("ECONNREFUSED", 3)

\* C3: an attempt that fails with an error other than ECONNREFUSED is the
\* last connectToFirefox() invocation, and the promise is rejected with
\* that same error, whatever retry budget remains.
C3_OtherErrorAborts ==
    \A i \in 1..Len(connectLog) :
        (~IsClient(connectLog[i]) /\ connectLog[i].code # "ECONNREFUSED")
        => /\ i = Len(connectLog)
           /\ connectCalls = i
           /\ fcState = "rejected"
           /\ fcResult = connectLog[i]

\* A non-refusal error on the first attempt, with budget left: exactly one
\* invocation.
C3_Witness ==
    /\ retrier = "loop"
    /\ maxRetries = 2
    /\ connectCalls = 1
    /\ retries = 0
    /\ Len(connectLog) = 1
    /\ ~IsClient(connectLog[1])
    /\ connectLog[1].code = "NONE"
    /\ fcState = "rejected"
    /\ fcResult = connectLog[1]

(***************************************************************************)
(* defaultFirefoxClient called without maxRetries and retryInterval: the   *)
(* default retry policy.                                                   *)
(***************************************************************************)
NextRetryDefault ==
    \/ defaultFirefoxClient(ConnectorOnly)
    \/ ConnectResolves
    \/ \E code \in ErrorCodes : ConnectRejects(code)
    \/ RetryTimerFires
    \/ defaultFirefoxClient_recursive(ConnectorOnly)
    \/ ConnectResolves_recursive
    \/ \E code \in ErrorCodes : ConnectRejects_recursive(code)
    \/ RetryTimerFires_recursive

SpecRetryDefault == InitRetry /\ [][NextRetryDefault]_vars

\* The call gave neither maxRetries nor retryInterval.
DefaultPolicy ==
    /\ fcState # "idle"
    /\ "maxRetries" \notin DOMAIN fcParams
    /\ "retryInterval" \notin DOMAIN fcParams

\* Every retry timer so far was set to delay milliseconds, and every
\* connection attempt but the first came after such a timer.
AttemptsApart(delay) ==
    /\ \A i \in DOMAIN timers : timers[i] = delay
    /\ connectCalls <= Len(timers) + 1

\* C22 (as stated): under the default retry policy a connection that is
\* always refused is attempted at most 250 times, 120 ms apart.
C22_AtMost250Attempts ==
    (DefaultPolicy /\ AllRefused) =>
        /\ connectCalls <= 250
        /\ AttemptsApart(120)

\* C22 (amended): under the default retry policy maxRetries counts the
\* retries, not the attempts: a connection that is always refused is
\* attempted exactly maxRetries + 1 times before the promise rejects, 251
\* times with the default maxRetries of 250 of src/cmd/run.js (26 times
\* with the default of 25 of unnamed/part_000), never more, with a timer of
\* 120 ms between one attempt and the next.
C22_DefaultPolicyAttempts ==
    DefaultPolicy =>
        /\ maxRetries = IF retrier = "loop" THEN 250 ELSE 25
        /\ retryInterval = 120
        /\ connectCalls <= maxRetries + 1
        /\ AttemptsApart(120)
        /\ (AllRefused /\ fcState = "rejected")
               => /\ connectCalls = maxRetries + 1
                  /\ Len(timers) >= maxRetries

\* The retrier of src/cmd/run.js gave up after 251 refused attempts.
C22_Witness ==
    /\ DefaultPolicy
    /\ retrier = "loop"
    /\ AllRefused
    /\ fcState = "rejected"
    /\ connectCalls = 251
    /\ Len(connectLog) = 251

\* establishConnection() of src/cmd/run.js run over a given sequence of
\* connection outcomes, every retry timer firing: iteration `r` of the for
\* loop with lastError = last.  The record tells the connectToFirefox()
\* calls made, how the promise ends and with what; the promise is still
\* "connecting" when the outcomes given are used up.
RECURSIVE establishConnection_loop(_, _, _, _)
establishConnection_loop(outcomes, m, r, last) ==
    IF ~LoopCondition(r, m)
    THEN [calls |-> r, state |-> "rejected", result |-> last]
    ELSE IF r + 1 > Len(outcomes)
    THEN [calls |-> r + 1, state |-> "connecting", result |-> Undefined]
    ELSE IF IsClient(outcomes[r + 1])
    THEN [calls |-> r + 1, state |-> "resolved", result |-> outcomes[r + 1]]
    ELSE IF ShouldRetry(outcomes[r + 1])
    THEN establishConnection_loop(outcomes, m, r + 1,
             AssignLastError(last, outcomes[r + 1]))
    ELSE [calls |-> r + 1, state |-> "rejected", result |-> outcomes[r + 1]]

\* establishConnection() of unnamed/part_000 run over the same: the call
\* made with retries = r.
RECURSIVE establishConnection_recursive(_, _, _)
establishConnection_recursive(outcomes, m, r) ==
    IF r + 1 > Len(outcomes)
    THEN [calls |-> r + 1, state |-> "connecting", result |-> Undefined]
    ELSE IF IsClient(outcomes[r + 1])
    THEN [calls |-> r + 1, state |-> "resolved", result |-> outcomes[r + 1]]
    ELSE IF /\ onlyErrorsWithCode("ECONNREFUSED", outcomes[r + 1])
            /\ ~TooManyRetries(r, m)
    THEN establishConnection_recursive(outcomes, m, r + 1)
    ELSE [calls |-> r + 1, state |-> "rejected", result |-> outcomes[r + 1]]

\* How the retrier that ran has ended.
RetrierOutcome ==
    [calls |-> connectCalls, state |-> fcState, result |-> fcResult]

\* C40: for every maxRetries >= 0 and every sequence of connection outcomes
\* (refused, other error, success), the loop retrier of src/cmd/run.js and
\* the recursive retrier of unnamed/part_000 make the same number of
\* connectToFirefox() calls and end with the same client or the same
\* error: whichever of the two has run and settled, each of them, given
\* the outcomes of that run, ends as that run did.
C40_RetriersAgree ==
    fcState \in {"resolved", "rejected"} =>
        /\ establishConnection_loop(connectLog, maxRetries, 0, Undefined)
               = RetrierOutcome
        /\ establishConnection_recursive(connectLog, maxRetries, 0)
               = RetrierOutcome

\* The recursive retrier gave up after maxRetries + 1 refused attempts, and
\* the loop retrier gives up on the same outcomes with the same error.
C40_Witness ==
    /\ retrier = "recursive"
    /\ maxRetries = 2
    /\ fcState = "rejected"
    /\ AllRefused
    /\ connectCalls = 3
    /\ fcResult = ConnectError("ECONNREFUSED", 3)
    /\ establishConnection_loop(connectLog, maxRetries, 0, Undefined)
           = RetrierOutcome

(***************************************************************************)
(* MultiExtensionRunner.registerCleanup                                    *)
(*                                                                         *)
(* registration j is the j-th call of registerCleanup: it registers, on    *)
(* every member, the resolve function of a promise of its own, and calls   *)
(* cleanupCallback when Promise.all of these promises settles.  A member   *)
(* runs the callbacks registered on it when it has exited; nothing in      *)
(* MultiExtensionRunner stops a member from running them more than once.   *)
(***************************************************************************)

Registrations == 1..Len(resolvedBy)

\* Plausible bug: the callback is called as soon as one member has cleaned
\* up (Promise.race in place of Promise.all).
CleanupBarrierAnyMember(resolved, runners) == resolved # {} \/ runners = {}

\* Promise.all(promises) is resolved: every member has called the resolve
\* function registered on it.  These promises are never rejected.
CleanupBarrier(resolved, runners) == resolved = runners

\* registerCleanup(cleanupCallback): with no member, Promise.all([]) is
\* resolved at once and the callback is called.
MultiExtensionRunner_registerCleanup ==
    /\ Len(resolvedBy) < MaxRegistrations
    /\ LET j == Len(resolvedBy) + 1 IN
       /\ cleanupCallbacks' =
              [r \in Runners |->
                  IF r \in InvokedByLoop(Runners)
                  THEN Append(cleanupCallbacks[r], j)
                  ELSE cleanupCallbacks[r]]
       /\ resolvedBy' = Append(resolvedBy, {})
       /\ cleanupCalled' =
              Append(cleanupCalled,
                     IF CleanupBarrier({}, Runners) THEN 1 ELSE 0)
    /\ UNCHANGED <<cleanupRuns, notCleanupVars>>

\* The members that have called the resolve function of registration j
\* once the given member has run the callbacks registered on it.
ResolvedAfter(j, runner) ==
    IF \E k \in DOMAIN cleanupCallbacks[runner] :
           cleanupCallbacks[runner][k] = j
    THEN resolvedBy[j] \cup {runner}
    ELSE resolvedBy[j]

\* A member runs its cleanup callbacks: each one resolves its promise (a
\* second resolve of a promise does nothing), and the registrations whose
\* Promise.all becomes resolved by it call their cleanupCallback.
MemberRunsCleanup(runner) ==
    /\ cleanupRuns[runner] < MaxCleanupRuns
    /\ cleanupRuns' = [cleanupRuns EXCEPT ![runner] = @ + 1]
    /\ resolvedBy' = [j \in Registrations |-> ResolvedAfter(j, runner)]
    /\ cleanupCalled' =
           [j \in Registrations |->
               IF /\ ~CleanupBarrier(resolvedBy[j], Runners)
                  /\ CleanupBarrier(ResolvedAfter(j, runner), Runners)
               THEN cleanupCalled[j] + 1
               ELSE cleanupCalled[j]]
    /\ UNCHANGED <<cleanupCallbacks, notCleanupVars>>

NextCleanup ==
    \/ MultiExtensionRunner_registerCleanup
    \/ \E runner \in Runners : MemberRunsCleanup(runner)

SpecCleanup == InitMulti /\ [][NextCleanup]_vars

(***************************************************************************)
(* Claims about MultiExtensionRunner's requests, checked under SpecMulti.  *)
(***************************************************************************)

IsReloadRequest == mrCall # Undefined /\ mrCall.op \in ReloadOps

IsRequest(op) == mrCall # Undefined /\ mrCall.op = op

Settled(runner) == memberState[runner] \in {"resolved", "rejected"}

\* C4: a reload request that resolves returns one outcome per member, the
\* i-th outcome naming the i-th runner whatever order the members settled
\* in; an outcome carries a reloadError exactly when that member's reload
\* rejected (and it is the member's rejection reason), and it carries the
\* requested sourceDir exactly when the request is
\* reloadExtensionBySourceDir.
C4_OneOutcomePerRunner ==
    (IsReloadRequest /\ mrState = "resolved")
    => /\ DOMAIN mrValue = Runners
       /\ \A i \in Runners :
            /\ mrValue[i].runnerName = getName(i)
            /\ ("reloadError" \in DOMAIN mrValue[i])
                   <=> (memberState[i] = "rejected")
            /\ (memberState[i] = "rejected")
                   => (mrValue[i].reloadError = memberReason[i])
            /\ ("sourceDir" \in DOMAIN mrValue[i])
                   <=> (mrCall.op = "reloadExtensionBySourceDir")
            /\ (mrCall.op = "reloadExtensionBySourceDir")
                   => (mrValue[i].sourceDir = mrCall.sourceDir)

\* Three runners, the second one fails, the members settle in the order
\* 3, 1, 2: three outcomes, exactly one carrying an error.
C4_Witness ==
    /\ IsRequest("reloadExtensionBySourceDir")
    /\ Len(extensionRunners) = 3
    /\ settleOrder = <<3, 1, 2>>
    /\ memberState = <<"resolved", "rejected", "resolved">>
    /\ mrState = "resolved"
    /\ Cardinality({i \in Runners : "reloadError" \in DOMAIN mrValue[i]}) = 1

\* C5: for a reload request every member's reload has been invoked exactly
\* once as soon as the request is made, whatever the state of the other
\* members' reloads (pending for ever, failed, done); and the outcome of a
\* member whose reload has settled is recorded whatever its siblings do.
C5_EveryMemberReloadedOnce ==
    IsReloadRequest
    => \A r \in Runners :
         /\ memberCalls[r] = 1
         /\ memberState[r] # "idle"
         /\ Settled(r) <=> (results[r] # Undefined)

\* The first member never completes, the second failed, the third was
\* reloaded nonetheless and completed.
C5_Witness ==
    /\ IsRequest("reloadAllExtensions")
    /\ Len(extensionRunners) = 3
    /\ memberState = <<"pending", "rejected", "resolved">>
    /\ memberCalls = <<1, 1, 1>>
    /\ results[3] = [runnerName |-> getName(3)]

\* C6: the promise of a reload request never rejects, whatever members
\* reject, and it is resolved exactly when every member's reload has
\* settled, with the outcome list.
C6_ReloadNeverRejects ==
    IsReloadRequest
    => /\ mrState # "rejected"
       /\ (mrState = "resolved") <=> (\A r \in Runners : Settled(r))
       /\ (mrState = "resolved") => (DOMAIN mrValue = Runners)
       /\ (mrState # "resolved") => (mrState = "pending")

\* Every member of three rejects: the request is resolved.
C6_Witness ==
    /\ IsRequest("reloadAllExtensions")
    /\ Len(extensionRunners) = 3
    /\ \A r \in Runners : memberState[r] = "rejected"
    /\ mrState = "resolved"

\* C7: exit() invokes exit() of every member exactly once, and its promise
\* settles only after the exit of every member has completed, whether it
\* succeeded or failed.
C7_ExitWaitsForEveryMember ==
    IsRequest("exit")
    => /\ \A r \in Runners : memberCalls[r] = 1
       /\ (mrState \in {"resolved", "rejected"})
              => (\A r \in Runners : Settled(r))

\* C8: the batch exit does not fail because a member's exit failed.
C8_ExitNeverRethrows ==
    IsRequest("exit") => mrState # "rejected"

\* C10: run() invokes run() of every member; as soon as the run() of any
\* member has failed the promise of run() is rejected (with the reason of
\* the first member that failed), and it is resolved exactly when the run()
\* of every member has succeeded.
C10_RunFailsIfAnyMemberFails ==
    IsRequest("run")
    => /\ \A r \in Runners : memberCalls[r] = 1
       /\ (\E r \in Runners : memberState[r] = "rejected")
              <=> (mrState = "rejected")
       /\ (mrState = "rejected")
              => (mrValue = memberReason[FirstRejected("run", memberState,
                                                       settleOrder)])
       /\ (mrState = "resolved")
              <=> (\A r \in Runners : memberState[r] = "resolved")

\* One member of three started, one failed to start, one is still
\* starting: run() has failed.
C10_Witness ==
    /\ IsRequest("run")
    /\ Len(extensionRunners) = 3
    /\ memberState = <<"resolved", "rejected", "pending">>
    /\ mrState = "rejected"
    /\ mrValue = memberReason[2]

\* The outcomes of the resolved reload request that carry a reload error,
\* in the order of the runners.
OutcomesWithError ==
    LET CarriesError(outcome) == "reloadError" \in DOMAIN outcome
    IN  SelectSeq(mrValue, CarriesError)

\* C30: a reload request raises no desktop notification before its
\* outcomes are collected, and then exactly one for every outcome that
\* carries a reload error, whatever the value the member rejected with,
\* naming the runner of that outcome and its source directory when there
\* is one; an outcome without a reload error raises none.
C30_OneNotificationPerReloadError ==
    IsReloadRequest =>
        IF mrState = "resolved"
        THEN /\ Len(notifications) = Len(OutcomesWithError)
             /\ \A i \in DOMAIN notifications :
                    /\ i <= Len(OutcomesWithError)
                    /\ notifications[i].message[3] =
                           OutcomesWithError[i].runnerName
                    /\ notifications[i].message[2] =
                           (IF /\ "sourceDir" \in DOMAIN OutcomesWithError[i]
                               /\ OutcomesWithError[i].sourceDir # ""
                            THEN <<OutcomesWithError[i].sourceDir>>
                            ELSE <<>>)
        ELSE notifications = <<>>

(***************************************************************************)
(* Claim about registerCleanup, checked under SpecCleanup.                 *)
(***************************************************************************)

\* The members that have run the callback registration j registered on
\* them: the member ran its callbacks after the registration was made.
CleanedUp(j) == resolvedBy[j]

\* C9: a callback registered with registerCleanup has been called exactly
\* once when every member runner has called the callback registered on it,
\* and has not been called while at least one member has not.
C9_CleanupBarrier ==
    \A j \in Registrations :
        cleanupCalled[j] = (IF CleanedUp(j) = Runners THEN 1 ELSE 0)

\* Three members have all cleaned up, one of them twice: the callback of
\* the first registration was called once; the second registration was
\* made after member 1 had cleaned up for the last time and still waits.
C9_Witness ==
    /\ Len(extensionRunners) = 3
    /\ Len(resolvedBy) = 2
    /\ cleanupRuns = <<2, 1, 1>>
    /\ resolvedBy[1] = Runners
    /\ cleanupCalled[1] = 1
    /\ resolvedBy[2] = {2, 3}
    /\ cleanupCalled[2] = 0

(***************************************************************************)
(* The run command: run() of src/cmd/run.js ("current") and the run() of   *)
(* unnamed/part_000 ("legacy").  Every call run() awaits is made on a      *)
(* collaborator (the manifest validator, the profile factory, the browser  *)
(* launcher, the connection retrier, the remote client), which resolves or *)
(* rejects it: one action per outcome.                                     *)
(***************************************************************************)
MaxChanges == 2

ManifestIds == {"a@ext", "b@ext"}

\* An id that is undefined: a manifest that names none, a response that
\* reports none.
NoId == ""

\* The id the browser gives a temporary add-on whose manifest names none.
TemporaryId == "temporary@id"

RunParams ==
    [preInstall : BOOLEAN, noReload : BOOLEAN, firefoxProfile : BOOLEAN,
     keepProfileChanges : BOOLEAN, isTTY : BOOLEAN]

\* The run() of unnamed/part_000 has neither keepProfileChanges nor stdin.
RunParams_legacy ==
    {p \in RunParams : ~p.keepProfileChanges /\ ~p.isTTY}

RunError(class, message) == [class |-> class, message |-> message]

\* The classes of the errors a collaborator rejects with.
RejectionClasses == {"RemoteTempInstallNotSupported", "Error"}

Rejection(class, call) == RunError(class, <<call, "failed">>)

TempInstallNotSupportedMessage(option) ==
    <<"Temporary add-on installation is not supported in this version of Firefox (you need Firefox 49 or higher). For older Firefox versions, use",
      option>>

\* getManifestId() of ../util/manifest.
getManifestId(manifest) == manifest.id

\* Plausible bug: keepProfileChanges is not looked at.
getProfileCopyingAlways(params) ==
    IF params.firefoxProfile THEN "copyProfile" ELSE "createProfile"

\* DefaultExtensionRunner.getProfile(): the profile factory it calls.
getProfile(params) ==
    IF params.firefoxProfile
    THEN IF params.keepProfileChanges THEN "useProfile" ELSE "copyProfile"
    ELSE "createProfile"

\* ExtensionRunner.getProfile() of unnamed/part_000.
getProfile_legacy(params) ==
    IF params.firefoxProfile THEN "copyProfile" ELSE "createProfile"

run_catchRethrowing(error) == error

\* The catch block around installAsTemporaryAddon().
run_catch(error) ==
    IF error.class = "RemoteTempInstallNotSupported"
    THEN RunError("WebExtError", TempInstallNotSupportedMessage("--pre-install"))
    ELSE error

\* .catch(onlyInstancesOf(RemoteTempInstallNotSupported, ...)) of
\* unnamed/part_000: it follows every awaited call of the chain.
run_catch_legacy(error) ==
    IF error.class = "RemoteTempInstallNotSupported"
    THEN RunError("WebExtError",
                  TempInstallNotSupportedMessage("--install-to-profile"))
    ELSE error

\* What run() throws when the call it awaits rejects.
Thrown(impl, call, error) ==
    IF impl = "current"
    THEN IF call = "installTemporaryAddon" THEN run_catch(error) ELSE error
    ELSE run_catch_legacy(error)

\* run() returns without starting anything more.
Returns ==
    [pc |-> "resolved", result |-> Undefined, calls |-> <<>>,
     watcher |-> "none"]

\* defaultReloadStrategy(): the watcher, then the 'close' listener.
defaultReloadStrategy == <<"reloadStrategy", "createWatcher", "on(close)">>

\* defaultReloadStrategy() of unnamed/part_000: the listener comes first.
defaultReloadStrategy_legacy == <<"reloadStrategy", "on(close)", "createWatcher">>

\* Plausible bug: the noReload option is not looked at.
StartReloadingDespiteNoReload(nr, id, params) ==
    IF id = NoId
    THEN [pc |-> "rejected",
          result |-> RunError("WebExtError",
              <<"Unexpected missing addonId in the installAsTemporaryAddon result">>),
          calls |-> <<>>, watcher |-> "none"]
    ELSE [pc |-> "resolved", result |-> Undefined,
          calls |-> (IF params.isTTY
                     THEN <<"emitKeypressEvents", "setRawMode(true)",
                            "keypressLoop">>
                     ELSE <<>>) \o defaultReloadStrategy,
          watcher |-> "open"]

\* The end of run() once the temporary add-on is installed.
StartReloading(nr, id, params) ==
    IF nr
    THEN Returns
    ELSE IF id = NoId
    THEN [pc |-> "rejected",
          result |-> RunError("WebExtError",
              <<"Unexpected missing addonId in the installAsTemporaryAddon result">>),
          calls |-> <<>>, watcher |-> "none"]
    ELSE [pc |-> "resolved", result |-> Undefined,
          calls |-> (IF params.isTTY
                     THEN <<"emitKeypressEvents", "setRawMode(true)",
                            "keypressLoop">>
                     ELSE <<>>) \o defaultReloadStrategy,
          watcher |-> "open"]

\* Whether the end of run() starts the keypress loop: reloading is not
\* disabled, the add-on id is known and stdin is a terminal.
StartsKeypressLoop(nr, id, params) ==
    \E i \in DOMAIN StartReloading(nr, id, params).calls :
        StartReloading(nr, id, params).calls[i] = "keypressLoop"

\* The last then-callback of the run() of unnamed/part_000.
StartReloading_legacy(nr) ==
    IF nr
    THEN Returns
    ELSE [pc |-> "resolved", result |-> Undefined,
          calls |-> defaultReloadStrategy_legacy, watcher |-> "open"]

\* run() makes a call and awaits it.
Await(call) ==
    /\ runLog' = Append(runLog, call)
    /\ runPc' = call
    /\ UNCHANGED <<runResult, watcher>>

\* run() runs to its end.
Finish(end) ==
    /\ runLog' = runLog \o end.calls
    /\ runPc' = end.pc
    /\ runResult' = end.result
    /\ watcher' = end.watcher

AwaitedCalls ==
    {"getValidatedManifest", "useProfile", "copyProfile", "createProfile",
     "installAsProxy", "installAsTextFileInProfile", "firefox.run",
     "firefoxClient", "installTemporaryAddon"}

watchVars == <<changes, reloadAddonCalls, runNotifications>>

run(impl, params) ==
    /\ runPc = "idle"
    /\ runImpl' = impl
    /\ runParams' = params
    /\ noReload' = IF impl = "current" /\ params.preInstall
                   THEN TRUE
                   ELSE params.noReload
    /\ Await("getValidatedManifest")
    /\ UNCHANGED <<rejection, installed, addonId, manifestData, installedAddon,
                   firefoxProcess, client, watchVars, loopVars, notRunVars>>

\* getValidatedManifest() resolves: the runner is built and asked for a
\* profile.
ManifestValidated(id) ==
    /\ runPc = "getValidatedManifest"
    /\ runImpl = "legacy" => id # NoId
    /\ manifestData' = [id |-> id]
    /\ Await(IF runImpl = "current"
             THEN getProfile(runParams)
             ELSE getProfile_legacy(runParams))
    /\ UNCHANGED <<runImpl, runParams, rejection, noReload, installed, addonId,
                   installedAddon, firefoxProcess, client, watchVars,
                   loopVars, notRunVars>>

\* runner.getProfile() resolves.
ProfileReady ==
    /\ runPc \in {"useProfile", "copyProfile", "createProfile"}
    /\ IF runParams.preInstall
       THEN Await(IF runImpl = "current"
                  THEN "installAsProxy"
                  ELSE "installAsTextFileInProfile")
       ELSE Await("firefox.run")
    /\ UNCHANGED <<runImpl, runParams, rejection, noReload, installed, addonId,
                   manifestData, installedAddon, firefoxProcess, client,
                   watchVars, loopVars, notRunVars>>

\* runner.installAsProxy() / installAsTextFileInProfile() resolves.
ExtensionInstalled ==
    /\ runPc \in {"installAsProxy", "installAsTextFileInProfile"}
    /\ manifestData.id # NoId
    /\ installed' = TRUE
    /\ addonId' = IF runImpl = "current"
                  THEN getManifestId(manifestData)
                  ELSE addonId
    /\ installedAddon' = manifestData.id
    /\ Await("firefox.run")
    /\ UNCHANGED <<runImpl, runParams, rejection, noReload, manifestData,
                   firefoxProcess, client, watchVars, loopVars, notRunVars>>

\* runner.run() resolves with the browser process.
FirefoxStarted ==
    /\ runPc = "firefox.run"
    /\ firefoxProcess' = "running"
    /\ IF runImpl = "current" /\ installed
       THEN Finish(Returns)
       ELSE Await("firefoxClient")
    /\ UNCHANGED <<runImpl, runParams, rejection, noReload, installed, addonId,
                   manifestData, installedAddon, client, watchVars,
                   loopVars, notRunVars>>

\* firefoxClient() resolves with the connected client.
ClientConnected ==
    /\ runPc = "firefoxClient"
    /\ client' = "connected"
    /\ IF runImpl = "legacy" /\ installed
       THEN Finish(StartReloading_legacy(noReload))
       ELSE Await("installTemporaryAddon")
    /\ UNCHANGED <<runImpl, runParams, rejection, noReload, installed, addonId,
                   manifestData, installedAddon, firefoxProcess, watchVars,
                   loopVars, notRunVars>>

\* installTemporaryAddon() resolves.  The browser installed the add-on
\* under the id of its manifest, or under a temporary id when the manifest
\* names none; the response reports that id, or none.
TemporaryAddonInstalled(reported) ==
    /\ runPc = "installTemporaryAddon"
    /\ LET id == IF manifestData.id # NoId
                 THEN manifestData.id
                 ELSE TemporaryId
           resultId == IF reported THEN id ELSE NoId
       IN  /\ installedAddon' = id
           /\ IF runImpl = "current"
              THEN /\ addonId' = resultId
                   /\ Finish(StartReloading(noReload, resultId, runParams))
              ELSE /\ addonId' = addonId
                   /\ Finish(StartReloading_legacy(noReload))
           /\ IF runImpl = "current" /\
                 StartsKeypressLoop(noReload, resultId, runParams)
              THEN /\ keyLoop' = "waiting"
                   /\ stdinState' = [stdinState EXCEPT !.rawMode = TRUE]
              ELSE UNCHANGED <<keyLoop, stdinState>>
    /\ UNCHANGED <<runImpl, runParams, rejection, noReload, installed,
                   manifestData, firefoxProcess, client, watchVars, keyLog,
                   firefoxKilled, notRunVars>>

\* The call run() awaits rejects.
AwaitedCallRejects(class) ==
    /\ runPc \in AwaitedCalls
    /\ LET error == Rejection(class, runPc)
       IN  /\ rejection' = [call |-> runPc, error |-> error]
           /\ runResult' = Thrown(runImpl, runPc, error)
    /\ runPc' = "rejected"
    /\ UNCHANGED <<runImpl, runParams, runLog, noReload, installed, addonId,
                   manifestData, installedAddon, firefoxProcess, client,
                   watcher, watchVars, loopVars, notRunVars>>

(***************************************************************************)
(* The reload strategy of the run command: defaultWatcherCreator,          *)
(* defaultAddonReload and the 'close' listener of defaultReloadStrategy.   *)
(***************************************************************************)
\* defaultAddonReload(): the client.reloadAddon() calls notification n
\* makes.
addonReload(id, n) == <<[addonId |-> id, change |-> n]>>

\* onChange of defaultWatcherCreator.
SourceChanged ==
    /\ watcher = "open"
    /\ Len(changes) < MaxChanges
    /\ IF runImpl = "current"
       THEN /\ reloadAddonCalls' = reloadAddonCalls \o
                   addonReload(addonId, Len(changes) + 1)
            /\ changes' = Append(changes, "reloadAddon")
       ELSE /\ changes' = Append(changes, "getValidatedManifest")
            /\ UNCHANGED reloadAddonCalls
    /\ UNCHANGED <<runImpl, runParams, runPc, runResult, rejection, runLog,
                   noReload, installed, addonId, manifestData, installedAddon,
                   firefoxProcess, client, watcher, runNotifications,
                   loopVars, notRunVars>>

\* onChange of the defaultWatcherCreator of unnamed/part_000: createRunner()
\* resolves with a runner holding the manifest as it is now.
ChangeManifestValidated(k, id) ==
    /\ k \in DOMAIN changes
    /\ changes[k] = "getValidatedManifest"
    /\ reloadAddonCalls' = Append(reloadAddonCalls,
                                  [addonId |-> id, change |-> k])
    /\ changes' = [changes EXCEPT ![k] = "reloadAddon"]
    /\ UNCHANGED <<runImpl, runParams, runPc, runResult, rejection, runLog,
                   noReload, installed, addonId, manifestData, installedAddon,
                   firefoxProcess, client, watcher, runNotifications,
                   loopVars, notRunVars>>

\* The same createRunner() rejects: the error is logged and thrown again.
ChangeManifestRejected(k) ==
    /\ k \in DOMAIN changes
    /\ changes[k] = "getValidatedManifest"
    /\ changes' = [changes EXCEPT ![k] = "rejected"]
    /\ UNCHANGED <<runImpl, runParams, runPc, runResult, rejection, runLog,
                   noReload, installed, addonId, manifestData, installedAddon,
                   firefoxProcess, client, watcher, reloadAddonCalls,
                   runNotifications, loopVars, notRunVars>>

ReloadAddonResolves(k) ==
    /\ k \in DOMAIN changes
    /\ changes[k] = "reloadAddon"
    /\ changes' = [changes EXCEPT ![k] = "resolved"]
    /\ UNCHANGED <<runImpl, runParams, runPc, runResult, rejection, runLog,
                   noReload, installed, addonId, manifestData, installedAddon,
                   firefoxProcess, client, watcher, reloadAddonCalls,
                   runNotifications, loopVars, notRunVars>>

\* The error the client.reloadAddon() call of source change k rejects
\* with.
ReloadAddonError(k) == RunError("Error", <<"reloadAddon", "failed", k>>)

\* Plausible bug: the error is logged and thrown again without a desktop
\* notification.
defaultAddonReload_catchWithoutNotification(notes, error) == notes

\* The catch callback of defaultAddonReload(): the desktop notifications
\* raised once it has handled `error`, which it throws again.
defaultAddonReload_catch(notes, error) ==
    Append(notes, [title |-> "web-ext run: error occurred",
                   message |-> error.message])

\* client.reloadAddon() rejects: the catch callback logs, notifies (in
\* src/cmd/run.js) and throws the error again.
ReloadAddonRejects(k) ==
    /\ k \in DOMAIN changes
    /\ changes[k] = "reloadAddon"
    /\ changes' = [changes EXCEPT ![k] = "rejected"]
    /\ runNotifications' =
           IF runImpl = "current"
           THEN defaultAddonReload_catch(runNotifications,
                                         ReloadAddonError(k))
           ELSE runNotifications
    /\ UNCHANGED <<runImpl, runParams, runPc, runResult, rejection, runLog,
                   noReload, installed, addonId, manifestData, installedAddon,
                   firefoxProcess, client, watcher, reloadAddonCalls,
                   loopVars, notRunVars>>

\* Whether defaultReloadStrategy() has registered its 'close' listener.
CloseListenerRegistered ==
    \E i \in DOMAIN runLog : runLog[i] = "on(close)"

\* Plausible bug: the watcher is closed before the client is disconnected.
onFirefoxCloseWatcherFirst == <<"watcher.close", "client.disconnect">>

\* The 'close' listener of defaultReloadStrategy(): the calls it makes, the
\* same in both implementations.
onFirefoxClose == <<"client.disconnect", "watcher.close">>

\* The browser process emits 'close', once; the listeners attached by then
\* are called.
FirefoxCloses ==
    /\ firefoxProcess = "running"
    /\ firefoxProcess' = "closed"
    /\ IF CloseListenerRegistered
       THEN /\ runLog' = runLog \o onFirefoxClose
            /\ client' = "disconnected"
            /\ watcher' = "closed"
       ELSE UNCHANGED <<runLog, client, watcher>>
    /\ UNCHANGED <<runImpl, runParams, runPc, runResult, rejection,
                   noReload, installed, addonId, manifestData, installedAddon,
                   watchVars, loopVars, notRunVars>>

InitRun ==
    /\ RetryIdle
    /\ extensionRunners = <<>>
    /\ CallIdle
    /\ CleanupIdle
    /\ RunIdle
    /\ ChromiumIdle
    /\ StrategyIdle
    /\ FirefoxIdle
    /\ FinderIdle

NextRun ==
    \/ \E params \in RunParams : run("current", params)
    \/ \E params \in RunParams_legacy : run("legacy", params)
    \/ \E id \in ManifestIds \cup {NoId} : ManifestValidated(id)
    \/ ProfileReady
    \/ ExtensionInstalled
    \/ FirefoxStarted
    \/ ClientConnected
    \/ \E reported \in BOOLEAN : TemporaryAddonInstalled(reported)
    \/ \E class \in RejectionClasses : AwaitedCallRejects(class)
    \/ SourceChanged
    \/ \E k \in 1..MaxChanges, id \in ManifestIds :
           ChangeManifestValidated(k, id)
    \/ \E k \in 1..MaxChanges : ChangeManifestRejected(k)
    \/ \E k \in 1..MaxChanges : ReloadAddonResolves(k)
    \/ \E k \in 1..MaxChanges : ReloadAddonRejects(k)
    \/ FirefoxCloses

SpecRun == InitRun /\ [][NextRun]_vars

\* The awaited call `call` rejected with an error of class `class`.
Rejected(call, class) ==
    /\ rejection # Undefined
    /\ rejection.call = call
    /\ rejection.error.class = class

ReloadStrategyStarted ==
    \E i \in DOMAIN runLog : runLog[i] = "reloadStrategy"

\* C11: when installTemporaryAddon() rejects with
\* RemoteTempInstallNotSupported, run() rejects with a WebExtError whose
\* message tells the user to use the profile pre-install option
\* (--pre-install, --install-to-profile in unnamed/part_000), and the
\* reload strategy is never started: the error is neither passed on as it
\* came nor swallowed.
C11_UnsupportedInstallAdvisesPreInstall ==
    Rejected("installTemporaryAddon", "RemoteTempInstallNotSupported") =>
        /\ runPc = "rejected"
        /\ runResult = RunError("WebExtError",
               TempInstallNotSupportedMessage(
                   IF runImpl = "current"
                   THEN "--pre-install"
                   ELSE "--install-to-profile"))
        /\ ~ReloadStrategyStarted
        /\ watcher = "none"

C11_Witness ==
    /\ runImpl = "current"
    /\ Rejected("installTemporaryAddon", "RemoteTempInstallNotSupported")
    /\ runPc = "rejected"
    /\ ~runParams.noReload

\* A source-change notification whose onChange handler has gone as far as
\* it goes in calling client.reloadAddon().
Handled(k) == changes[k] \in {"reloadAddon", "resolved", "rejected"}

CallsOf(k) == {i \in DOMAIN reloadAddonCalls : reloadAddonCalls[i].change = k}

\* C20: every source-change notification makes exactly one
\* client.reloadAddon() call, and the call names the id under which the
\* extension of the watched source directory is installed.
C20_OneReloadAddonPerChange ==
    \A k \in DOMAIN changes :
        Handled(k) =>
            /\ Cardinality(CallsOf(k)) = 1
            /\ \A i \in CallsOf(k) :
                   reloadAddonCalls[i].addonId = installedAddon

Called(call) == \E i \in DOMAIN runLog : runLog[i] = call

CalledBefore(first, second) ==
    \A j \in DOMAIN runLog :
        runLog[j] = second => \E i \in 1..(j - 1) : runLog[i] = first

\* C21: with pre-install enabled the extension is installed into the
\* profile before the browser is launched, installTemporaryAddon is never
\* called, no remote debugger connection is attempted, and the reload
\* strategy is never started.
C21_PreInstallSkipsRemote ==
    (runPc # "idle" /\ runParams.preInstall) =>
        /\ CalledBefore(IF runImpl = "current"
                        THEN "installAsProxy"
                        ELSE "installAsTextFileInProfile", "firefox.run")
        /\ firefoxProcess # "none" => installed
        /\ ~Called("installTemporaryAddon")
        /\ ~Called("firefoxClient")
        /\ ~ReloadStrategyStarted
        /\ watcher = "none"

\* The calls run() awaits when it does not pre-install, in the order of
\* the code.
ProfileCalls == {"useProfile", "copyProfile", "createProfile"}

StepOrder(i) ==
    CASE i = 1 -> {"getValidatedManifest"}
      [] i = 2 -> ProfileCalls
      [] i = 3 -> {"firefox.run"}
      [] i = 4 -> {"firefoxClient"}
      [] i = 5 -> {"installTemporaryAddon"}
      [] OTHER -> {"emitKeypressEvents", "setRawMode(true)", "keypressLoop",
                   "reloadStrategy", "createWatcher", "on(close)",
                   "client.disconnect", "watcher.close"}

\* C31: when run() does not pre-install, its steps come in the order
\* profile obtained, browser launched, remote client connected, temporary
\* add-on installed; the reload strategy is started at most once, only
\* after the temporary install has succeeded, and never when noReload is
\* set; a step that fails is the last step made.
C31_StepsInOrder ==
    (runPc # "idle" /\ ~runParams.preInstall) =>
        /\ \A i \in DOMAIN runLog : runLog[i] \in StepOrder(i)
        /\ Cardinality({i \in DOMAIN runLog : runLog[i] = "reloadStrategy"})
               <= 1
        /\ ReloadStrategyStarted =>
               /\ ~runParams.noReload
               /\ installedAddon # NoId
               /\ rejection = Undefined
               /\ \A i \in DOMAIN runLog :
                      runLog[i] = "reloadStrategy" => i > 5
        /\ rejection # Undefined =>
               /\ runPc = "rejected"
               /\ runLog[Len(runLog)] = rejection.call
               /\ firefoxProcess = "none" =>
                      (client = "none" /\ installedAddon = NoId)
               /\ client = "none" => installedAddon = NoId

\* A run with noReload set installed the add-on temporarily and returned;
\* the browser is still running.
C31_Witness ==
    /\ runImpl = "current"
    /\ ~runParams.preInstall
    /\ runParams.noReload
    /\ runPc = "resolved"
    /\ Len(runLog) = 5
    /\ runLog[5] = "installTemporaryAddon"
    /\ installedAddon # NoId
    /\ ~ReloadStrategyStarted

\* The source changes whose client.reloadAddon() has rejected.
FailedReloads ==
    {k \in DOMAIN changes :
        /\ changes[k] = "rejected"
        /\ \E i \in DOMAIN reloadAddonCalls : reloadAddonCalls[i].change = k}

\* C35: when client.reloadAddon() fails, defaultAddonReload() raises one
\* desktop notification with the message of the error and the promise of
\* the source-change handler is rejected; a reloadAddon() that succeeds
\* raises no notification.
C35_FailedReloadNotifiesOnce ==
    /\ [](runImpl = "current" =>
             /\ Len(runNotifications) = Cardinality(FailedReloads)
             /\ \A k \in FailedReloads :
                    Cardinality({i \in DOMAIN runNotifications :
                        runNotifications[i].message =
                            ReloadAddonError(k).message}) = 1)
    /\ [][\A k \in DOMAIN changes :
              changes[k] = "reloadAddon" =>
                  /\ changes'[k] = "rejected" =>
                         (runImpl = "current" =>
                              runNotifications' =
                                  Append(runNotifications,
                                      [title |-> "web-ext run: error occurred",
                                       message |->
                                           ReloadAddonError(k).message]))
                  /\ changes'[k] = "resolved" =>
                         runNotifications' = runNotifications
                  /\ changes'[k] \in {"reloadAddon", "rejected", "resolved"}
       ]_vars

\* Of two source changes, the reload of the second failed and was notified,
\* and the reload of the first succeeded afterwards.
C35_Witness ==
    /\ runImpl = "current"
    /\ changes = <<"resolved", "rejected">>
    /\ runNotifications = <<[title |-> "web-ext run: error occurred",
                             message |-> ReloadAddonError(2).message]>>

\* The positions of `call` in the log of run() and of its listeners.
PositionsOf(call) == {i \in DOMAIN runLog : runLog[i] = call}

\* C36: once defaultReloadStrategy() has attached its listener, the 'close'
\* event of the browser process makes it disconnect the remote client and
\* then close the source watcher; before the browser has closed the client
\* is not disconnected and the watcher is not closed.
C36_CloseDisconnectsThenClosesWatcher ==
    /\ [](firefoxProcess # "closed" =>
             /\ client # "disconnected"
             /\ watcher # "closed"
             /\ PositionsOf("client.disconnect") = {}
             /\ PositionsOf("watcher.close") = {})
    /\ [][(firefoxProcess = "running" /\ firefoxProcess' = "closed"
               /\ PositionsOf("on(close)") # {}) =>
              /\ runLog' = runLog \o <<"client.disconnect", "watcher.close">>
              /\ client' = "disconnected"
              /\ watcher' = "closed"
       ]_vars

\* The browser of a legacy run closed after the reload strategy had been
\* set up and a source change had been handled.
C36_Witness ==
    /\ runImpl = "legacy"
    /\ firefoxProcess = "closed"
    /\ changes # <<>>
    /\ client = "disconnected"
    /\ watcher = "closed"
    /\ runLog[Len(runLog)] = "watcher.close"
    /\ runLog[Len(runLog) - 1] = "client.disconnect"

\* The profile operations run() has invoked, as positions of its log.
ProfileOperations == {i \in DOMAIN runLog : runLog[i] \in ProfileCalls}

\* C37: getProfile() invokes one profile operation: useProfile when a
\* profile path is given and keepProfileChanges is set, copyProfile when a
\* profile path is given and keepProfileChanges is not set, createProfile
\* when no profile path is given; with a profile path createProfile is
\* never called.
C37_OneProfileOperation ==
    /\ Cardinality(ProfileOperations) <= 1
    /\ (runPc \notin {"idle", "getValidatedManifest"} /\ runLog # <<>>
            /\ runLog[1] = "getValidatedManifest" /\ Len(runLog) >= 2) =>
           Cardinality(ProfileOperations) = 1
    /\ \A i \in ProfileOperations :
           runLog[i] =
               IF runParams.firefoxProfile
               THEN IF runParams.keepProfileChanges
                    THEN "useProfile"
                    ELSE "copyProfile"
               ELSE "createProfile"
    /\ (runPc # "idle" /\ runParams.firefoxProfile) =>
           PositionsOf("createProfile") = {}

\* A run that keeps the changes of the given profile has used it and has
\* gone on to start the browser.
C37_Witness ==
    /\ runImpl = "current"
    /\ runParams.firefoxProfile
    /\ runParams.keepProfileChanges
    /\ PositionsOf("useProfile") # {}
    /\ PositionsOf("copyProfile") = {}
    /\ PositionsOf("firefox.run") # {}

\* C39: if the browser process emits 'close' at any time after run() has
\* launched it, also while the remote connection or the temporary install
\* is in progress and before defaultReloadStrategy() has attached its
\* 'close' listener, every client that gets connected is in the end
\* disconnected and every watcher that gets created is in the end closed.
\* When run() has settled after the 'close' event, no later step changes
\* the client or the watcher, so that what is left open then stays open.
C39_ClosedBrowserLeavesNothingOpen ==
    (firefoxProcess = "closed" /\ runPc \in {"resolved", "rejected"}) =>
        /\ client # "connected"
        /\ watcher # "open"

(***************************************************************************)
(* The keypress loop of run() of src/cmd/run.js, with the watcher of its   *)
(* reload strategy.                                                        *)
(***************************************************************************)
MaxKeypresses == 2

\* The keys of the terminal: R, Ctrl-C and any other key.
RunKeys == {"r", "ctrl-c", "x"}

\* The parameters with which run() starts automatic reloading, on a new
\* profile: stdin is a terminal or is not.
ReloadingRunParams ==
    {params \in RunParams :
        /\ ~params.preInstall
        /\ ~params.noReload
        /\ ~params.firefoxProfile
        /\ ~params.keepProfileChanges}

\* One more keypress event: whether the listener of the loop was attached,
\* and whether the loop was awaiting addonReload() instead.
KeyEvent(key) ==
    [key |-> key,
     heard |-> keyLoop = "waiting",
     awaiting |-> keyLoop = "reloading"]

\* stdin emits a keypress.  The loop, when it awaits one, resumes:
\* Ctrl-C ends it, runningFirefox.kill() and stdin.pause() follow; R calls
\* addonReload() and awaits it; after any other key the loop awaits the
\* next keypress.
KeyPressed(key) ==
    /\ stdinState.rawMode
    /\ ~stdinState.paused
    /\ Len(keyLog) < MaxKeypresses
    /\ keyLog' = Append(keyLog, KeyEvent(key))
    /\ IF keyLoop # "waiting"
       THEN UNCHANGED <<keyLoop, stdinState, firefoxKilled, reloadAddonCalls>>
       ELSE IF key = "ctrl-c"
       THEN /\ keyLoop' = "stopped"
            /\ firefoxKilled' = TRUE
            /\ stdinState' = [stdinState EXCEPT !.paused = TRUE]
            /\ UNCHANGED reloadAddonCalls
       ELSE IF key = "r" /\ addonId # NoId
       THEN /\ keyLoop' = "reloading"
            /\ reloadAddonCalls' = reloadAddonCalls \o addonReload(addonId, 0)
            /\ UNCHANGED <<stdinState, firefoxKilled>>
       ELSE UNCHANGED <<keyLoop, stdinState, firefoxKilled, reloadAddonCalls>>
    /\ UNCHANGED <<runImpl, runParams, runPc, runResult, rejection, runLog,
                   noReload, installed, addonId, manifestData, installedAddon,
                   firefoxProcess, client, watcher, changes, runNotifications,
                   notRunVars>>

\* The addonReload() the loop awaits resolves: the loop awaits the next
\* keypress.
KeyReloadResolves ==
    /\ keyLoop = "reloading"
    /\ keyLoop' = "waiting"
    /\ UNCHANGED <<runImpl, runParams, runPc, runResult, rejection, runLog,
                   noReload, installed, addonId, manifestData, installedAddon,
                   firefoxProcess, client, watcher, watchVars, keyLog,
                   stdinState, firefoxKilled, notRunVars>>

\* The addonReload() the loop awaits rejects: defaultAddonReload has
\* notified and thrown the error again, the await throws it inside the
\* async function of the loop, which has no try block: the function ends
\* rejected and attaches no keypress listener any more.
KeyReloadRejects ==
    /\ keyLoop = "reloading"
    /\ keyLoop' = "failed"
    /\ runNotifications' =
           Append(runNotifications,
                  [title |-> "web-ext run: error occurred",
                   message |-> <<"reloadAddon", "failed">>])
    /\ UNCHANGED <<runImpl, runParams, runPc, runResult, rejection, runLog,
                   noReload, installed, addonId, manifestData, installedAddon,
                   firefoxProcess, client, watcher, changes, reloadAddonCalls,
                   keyLog, stdinState, firefoxKilled, notRunVars>>

NextRunLoop ==
    \/ \E params \in ReloadingRunParams : run("current", params)
    \/ \E id \in ManifestIds \cup {NoId} : ManifestValidated(id)
    \/ ProfileReady
    \/ FirefoxStarted
    \/ ClientConnected
    \/ \E reported \in BOOLEAN : TemporaryAddonInstalled(reported)
    \/ SourceChanged
    \/ \E k \in 1..MaxChanges : ReloadAddonResolves(k)
    \/ \E k \in 1..MaxChanges : ReloadAddonRejects(k)
    \/ \E key \in RunKeys : KeyPressed(key)
    \/ KeyReloadResolves
    \/ KeyReloadRejects
    \/ FirefoxCloses

SpecRunLoop == InitRun /\ [][NextRunLoop]_vars

\* The client.reloadAddon() requests that are outstanding: those of file
\* changes, and the one the keypress loop awaits.
OutstandingReloads ==
    Cardinality({k \in DOMAIN changes : changes[k] = "reloadAddon"})
        + (IF keyLoop = "reloading" THEN 1 ELSE 0)

\* C27: on the one client of a run at most one reloadAddon request is
\* outstanding at any time, whether it comes from a file change or from
\* the R key.
C27_OneRequestInFlight == OutstandingReloads <= 1

\* A reload has failed: one of a file change, or the one of an R key.
SomeReloadFailed ==
    \/ \E k \in DOMAIN changes : changes[k] = "rejected"
    \/ keyLoop = "failed"

\* C29: a reload that fails does not stop the keypress loop: the loop is
\* not ended by the failure, every keypress emitted while the loop is not
\* awaiting a reload is heard until Ctrl-C is, and a Ctrl-C that is heard
\* kills the browser and pauses stdin.
C29_FailedReloadKeepsLoop ==
    /\ SomeReloadFailed =>
           keyLoop \in {"none", "waiting", "reloading", "stopped"}
    /\ \A i \in DOMAIN keyLog :
           \/ keyLog[i].heard
           \/ keyLog[i].awaiting
           \/ \E j \in 1..(i - 1) : keyLog[j].heard /\ keyLog[j].key = "ctrl-c"
    /\ (\E i \in DOMAIN keyLog : keyLog[i].heard /\ keyLog[i].key = "ctrl-c")
           => firefoxKilled /\ stdinState.paused

(***************************************************************************)
(* run() of src/firefox/index.js: the remote port is looked for, fxRunner  *)
(* spawns the browser, listeners are attached to the process and the       *)
(* promise is resolved with it.                                            *)
(***************************************************************************)
MaxLaunches == 2

\* The ports findRemotePort() may resolve with.
RemotePorts == {6005, 6006}

\* The firefoxBinary option: none given, or a path.
FirefoxBinaries == {"", "/usr/bin/firefox"}

\* The errors a browser process emits with its 'error' event, and the
\* errors findRemotePort() and fxRunner() reject with.
SpawnErrors == {"ENOENT"}

LaunchError(origin, code) == [origin |-> origin, code |-> code]

fxRunnerOptionsDefaultPort(firefoxBinary, remotePort) ==
    ("binary" :> firefoxBinary) @@ ("no-remote" :> TRUE)
        @@ ("listen" :> 6005) @@ ("foreground" :> TRUE)
        @@ ("verbose" :> TRUE)

\* The options run() passes to fxRunner().
fxRunnerOptions(firefoxBinary, remotePort) ==
    ("binary" :> firefoxBinary) @@ ("no-remote" :> TRUE)
        @@ ("listen" :> remotePort) @@ ("foreground" :> TRUE)
        @@ ("verbose" :> TRUE)

\* A launch as run() starts it: findRemotePort() is pending.
NewLaunch(firefoxBinary) ==
    [firefoxBinary |-> firefoxBinary,
     pc |-> "findRemotePort",
     portFinder |-> "pending",
     remotePort |-> 0,
     spawned |-> <<>>,
     process |-> "none",
     errorListener |-> FALSE,
     emitted |-> <<>>,
     uncaught |-> <<>>,
     result |-> Undefined]

Launches == DOMAIN launches

\* run(profile, {fxRunner, findRemotePort, firefoxBinary, binaryArgs})
firefox_run(firefoxBinary) ==
    /\ Len(launches) < MaxLaunches
    /\ launches' = Append(launches, NewLaunch(firefoxBinary))
    /\ UNCHANGED <<install, extensionsDir, notFirefoxVars>>

\* findRemotePort() resolves: .then((remotePort) => fxRunner({...}))
RemotePortFound(k, remotePort) ==
    /\ launches[k].pc = "findRemotePort"
    /\ launches' = [launches EXCEPT
           ![k].pc = "fxRunner",
           ![k].portFinder = "resolved",
           ![k].remotePort = remotePort,
           ![k].spawned = Append(@,
               fxRunnerOptions(launches[k].firefoxBinary, remotePort))]
    /\ UNCHANGED <<install, extensionsDir, notFirefoxVars>>

\* findRemotePort() rejects: neither then-callback runs.
RemotePortFinderRejects(k, code) ==
    /\ launches[k].pc = "findRemotePort"
    /\ launches' = [launches EXCEPT
           ![k].pc = "rejected",
           ![k].portFinder = "rejected",
           ![k].result = LaunchError("findRemotePort", code)]
    /\ UNCHANGED <<install, extensionsDir, notFirefoxVars>>

\* fxRunner() resolves with the spawned process: the second then-callback
\* attaches the 'error', 'data' and 'close' listeners and resolves the
\* promise of run() with the process.
FxRunnerResolves(k) ==
    /\ launches[k].pc = "fxRunner"
    /\ launches' = [launches EXCEPT
           ![k].pc = "resolved",
           ![k].process = "running",
           ![k].errorListener = TRUE,
           ![k].result = [process |-> k]]
    /\ UNCHANGED <<install, extensionsDir, notFirefoxVars>>

\* fxRunner() rejects.
FxRunnerRejects(k, code) ==
    /\ launches[k].pc = "fxRunner"
    /\ launches' = [launches EXCEPT
           ![k].pc = "rejected",
           ![k].result = LaunchError("fxRunner", code)]
    /\ UNCHANGED <<install, extensionsDir, notFirefoxVars>>

\* The process emits 'error': the listener logs the error and throws it.
\* It is thrown out of emit(), in no promise callback: an uncaught
\* exception, and the promise of run() stays as it was settled.
FirefoxEmitsError(k, code) ==
    /\ launches[k].process = "running"
    /\ launches[k].errorListener
    /\ launches[k].emitted = <<>>
    /\ launches' = [launches EXCEPT
           ![k].emitted = Append(@, LaunchError("process", code)),
           ![k].uncaught = Append(@, LaunchError("process", code))]
    /\ UNCHANGED <<install, extensionsDir, notFirefoxVars>>

\* The process emits 'close': the listener logs it.
FirefoxEmitsClose(k) ==
    /\ launches[k].process = "running"
    /\ launches' = [launches EXCEPT ![k].process = "closed"]
    /\ UNCHANGED <<install, extensionsDir, notFirefoxVars>>

InitLaunch ==
    /\ RetryIdle
    /\ extensionRunners = <<>>
    /\ CallIdle
    /\ CleanupIdle
    /\ RunIdle
    /\ ChromiumIdle
    /\ StrategyIdle
    /\ FirefoxIdle
    /\ FinderIdle

NextLaunch ==
    \/ \E firefoxBinary \in FirefoxBinaries : firefox_run(firefoxBinary)
    \/ \E k \in Launches, remotePort \in RemotePorts :
           RemotePortFound(k, remotePort)
    \/ \E k \in Launches, code \in SpawnErrors :
           RemotePortFinderRejects(k, code)
    \/ \E k \in Launches : FxRunnerResolves(k)
    \/ \E k \in Launches, code \in SpawnErrors : FxRunnerRejects(k, code)
    \/ \E k \in Launches, code \in SpawnErrors : FirefoxEmitsError(k, code)
    \/ \E k \in Launches : FirefoxEmitsClose(k)

SpecLaunch == InitLaunch /\ [][NextLaunch]_vars

\* C23: a spawn error emitted by the browser process makes the launch
\* fail for its caller: once the process of a launch has emitted 'error',
\* the promise of run() is rejected with that error, and it is not left
\* resolved with the error thrown where the caller cannot observe it.
C23_SpawnErrorFailsLaunch ==
    \A k \in Launches :
        launches[k].emitted # <<>> =>
            /\ launches[k].pc = "rejected"
            /\ launches[k].result = launches[k].emitted[1]
            /\ launches[k].uncaught = <<>>

\* C24: the browser is spawned at most once per launch, and only once
\* findRemotePort() has resolved; every spawn asks for a new instance
\* ('no-remote': true) listening on the port findRemotePort() resolved
\* with; when findRemotePort() rejects nothing is spawned and the launch
\* is rejected.
C24_SpawnedOnceOnFoundPort ==
    \A k \in Launches :
        /\ Len(launches[k].spawned) <= 1
        /\ launches[k].portFinder = "pending" => launches[k].spawned = <<>>
        /\ \A i \in DOMAIN launches[k].spawned :
               /\ launches[k].portFinder = "resolved"
               /\ launches[k].spawned[i]["no-remote"] = TRUE
               /\ launches[k].spawned[i]["listen"] = launches[k].remotePort
        /\ launches[k].process # "none" => Len(launches[k].spawned) = 1
        /\ launches[k].portFinder = "rejected" =>
               /\ launches[k].spawned = <<>>
               /\ launches[k].process = "none"
               /\ launches[k].pc = "rejected"

\* One launch spawned the browser on port 6006 and resolved, another was
\* rejected because no port was found.
C24_Witness ==
    \E k, j \in Launches :
        /\ launches[k].pc = "resolved"
        /\ launches[k].remotePort = 6006
        /\ Len(launches[k].spawned) = 1
        /\ launches[k].spawned[1]["listen"] = 6006
        /\ launches[j].portFinder = "rejected"
        /\ launches[j].pc = "rejected"

(***************************************************************************)
(* installExtension() of src/firefox/index.js and the runner methods that  *)
(* call it: installAsProxy of src/cmd/run.js, installAsTextFileInProfile   *)
(* of unnamed/part_000.                                                    *)
(***************************************************************************)
\* The paths of the source directories and of a packaged extension.
ExtensionSourceDirs == {"/src/ext", "/src/other"}

PackagedExtension == "/build/ext.xpi"

\* The profile objects: extensionsDir is set, or unexpectedly empty.
Profiles == {[extensionsDir |-> "/profile/extensions"],
             [extensionsDir |-> ""]}

\* The object DefaultExtensionRunner.installAsProxy() passes.
installAsProxy(id, sourceDir, profile) ==
    [manifestData |-> [id |-> id],
     asProxy |-> TRUE,
     extensionPath |-> sourceDir,
     profile |-> profile]

\* The object ExtensionRunner.installAsTextFileInProfile() passes.
installAsTextFileInProfile(id, sourceDir, profile) ==
    [manifestData |-> [id |-> id],
     asShadowInstall |-> TRUE,
     sourceDir |-> sourceDir,
     profile |-> profile]

\* A call that installs a packaged extension.
installPackaged(id, extensionPath, profile) ==
    [manifestData |-> [id |-> id],
     extensionPath |-> extensionPath,
     profile |-> profile]

InstallCallers ==
    {"installAsProxy", "installAsTextFileInProfile", "installPackaged"}

InstallParams(caller, id, sourceDir, profile) ==
    CASE caller = "installAsProxy" -> installAsProxy(id, sourceDir, profile)
      [] caller = "installAsTextFileInProfile" ->
             installAsTextFileInProfile(id, sourceDir, profile)
      [] OTHER -> installPackaged(id, PackagedExtension, profile)

\* A destructured parameter that is true; one the object lacks is
\* undefined.
Truthy(params, name) == name \in DOMAIN params /\ params[name] = TRUE

\* if (asShadowInstall)
asShadowInstall(params) == Truthy(params, "asShadowInstall")

\* path.join(profile.extensionsDir, `${id}`) and `${id}.xpi`
PointerFileName(id) == [name |-> id, ext |-> ""]

XpiFileName(id) == [name |-> id, ext |-> ".xpi"]

isDirectory(path) == path \in ExtensionSourceDirs

\* The then-callback of installExtension: the streams it opens.
InstallStreams(params) ==
    IF asShadowInstall(params)
    THEN [branch |-> "pointerFile",
          destPath |-> PointerFileName(params.manifestData.id),
          written |-> IF "sourceDir" \in DOMAIN params
                      THEN params.sourceDir
                      ELSE "undefined"]
    ELSE [branch |-> "xpi",
          destPath |-> XpiFileName(params.manifestData.id),
          written |-> params.extensionPath]

\* installExtension({manifestData, profile, extensionPath, sourceDir,
\* asShadowInstall}): the executor throws for an empty extensionsDir and
\* calls fs.stat() otherwise.
installExtension(caller, id, sourceDir, profile) ==
    /\ install = Undefined
    /\ LET params == InstallParams(caller, id, sourceDir, profile) IN
       install' = [caller |-> caller,
                   params |-> params,
                   pc |-> IF profile.extensionsDir = ""
                          THEN "rejected" ELSE "stat",
                   branch |-> "none",
                   mkdir |-> FALSE,
                   result |-> IF profile.extensionsDir = ""
                              THEN "WebExtError" ELSE "pending"]
    /\ UNCHANGED <<launches, extensionsDir, notFirefoxVars>>

\* The then-callback runs: createWriteStream() creates the destination
\* file, empty until the stream is written to it.
OpenStreams ==
    LET streams == InstallStreams(install.params) IN
    /\ install' = [install EXCEPT
           !.pc = "streaming",
           !.branch = streams.branch]
    /\ extensionsDir' = [exists |-> TRUE,
                         files |-> extensionsDir.files \cup
                             {[path |-> streams.destPath, content |-> ""]}]

\* The errors of the file system calls.
FsErrors == {"ENOENT", "EACCES"}

\* fs.stat(profile.extensionsDir) resolves: the directory exists.
StatResolves ==
    /\ install # Undefined
    /\ install.pc = "stat"
    /\ extensionsDir.exists
    /\ OpenStreams
    /\ UNCHANGED <<launches, notFirefoxVars>>

\* fs.stat() rejects: .catch(onlyErrorsWithCode('ENOENT', ...)) calls
\* fs.mkdir() for a missing directory and throws any other error again.
StatRejects(code) ==
    /\ install # Undefined
    /\ install.pc = "stat"
    /\ code = "ENOENT" <=> ~extensionsDir.exists
    /\ install' = IF onlyErrorsWithCode("ENOENT", [code |-> code])
                  THEN [install EXCEPT !.pc = "mkdir", !.mkdir = TRUE]
                  ELSE [install EXCEPT !.pc = "rejected", !.result = code]
    /\ UNCHANGED <<launches, extensionsDir, notFirefoxVars>>

\* fs.mkdir(profile.extensionsDir) resolves.
MkdirResolves ==
    /\ install # Undefined
    /\ install.pc = "mkdir"
    /\ OpenStreams
    /\ UNCHANGED <<launches, notFirefoxVars>>

\* fs.mkdir(profile.extensionsDir) rejects.
MkdirRejects ==
    /\ install # Undefined
    /\ install.pc = "mkdir"
    /\ install' = [install EXCEPT !.pc = "rejected", !.result = "EACCES"]
    /\ UNCHANGED <<launches, extensionsDir, notFirefoxVars>>

\* The streams end.  The pointer file holds what was written to it; the
\* .xpi holds the bytes of the file at extensionPath; a read stream on a
\* directory fails with EISDIR and nothing is copied.
StreamsSettle ==
    /\ install # Undefined
    /\ install.pc = "streaming"
    /\ LET streams == InstallStreams(install.params)
           others == {f \in extensionsDir.files : f.path # streams.destPath}
       IN
       IF streams.branch = "xpi" /\ isDirectory(streams.written)
       THEN /\ install' = [install EXCEPT
                   !.pc = "rejected", !.result = "EISDIR"]
            /\ UNCHANGED extensionsDir
       ELSE /\ install' = [install EXCEPT
                   !.pc = "resolved", !.result = "installed"]
            /\ extensionsDir' = [extensionsDir EXCEPT !.files = others \cup
                   {[path |-> streams.destPath,
                     content |-> streams.written]}]
    /\ UNCHANGED <<launches, notFirefoxVars>>

InitInstall ==
    /\ RetryIdle
    /\ extensionRunners = <<>>
    /\ CallIdle
    /\ CleanupIdle
    /\ RunIdle
    /\ ChromiumIdle
    /\ StrategyIdle
    /\ launches = <<>>
    /\ install = Undefined
    /\ extensionsDir \in {[exists |-> TRUE, files |-> {}],
                          [exists |-> FALSE, files |-> {}]}
    /\ FinderIdle

NextInstall ==
    \/ \E caller \in InstallCallers, id \in ManifestIds,
          sourceDir \in ExtensionSourceDirs, profile \in Profiles :
           installExtension(caller, id, sourceDir, profile)
    \/ StatResolves
    \/ \E code \in FsErrors : StatRejects(code)
    \/ MkdirResolves
    \/ MkdirRejects
    \/ StreamsSettle

SpecInstall == InitInstall /\ [][NextInstall]_vars

\* C25: a proxy (shadow) install requested by the runner, installAsProxy
\* or installAsTextFileInProfile, makes installExtension take the
\* pointer-file branch: the one file it creates in the extensions
\* directory is named by the extension id and ends up holding the source
\* directory path, and no .xpi is created or copied.
C25_ProxyInstallWritesPointerFile ==
    (/\ install # Undefined
     /\ install.caller \in {"installAsProxy", "installAsTextFileInProfile"}
     /\ install.pc \in {"streaming", "resolved", "rejected"}
     /\ install.branch # "none")
    => /\ install.branch = "pointerFile"
       /\ \A f \in extensionsDir.files :
              f.path = PointerFileName(install.params.manifestData.id)
       /\ install.pc = "resolved" =>
              extensionsDir.files =
                  {[path |-> PointerFileName(install.params.manifestData.id),
                    content |-> IF install.caller = "installAsProxy"
                                THEN install.params.extensionPath
                                ELSE install.params.sourceDir]}

(***************************************************************************)
(* ChromiumExtensionRunner and its reload-manager channel.  The class is   *)
(* in src/extension-runners/chromium, which is not among the sources: it   *)
(* is modelled from the runner contract and the channel design of the      *)
(* specification (4.4, 4.5) and from the calls its unit test makes         *)
(* (src/tests/unit/test-extension-runners/test.chromium.js).               *)
(***************************************************************************)
MaxReloads == 2
MaxCallbacks == 2
MaxExitCalls == 2

\* The one message type of the channel.
ReloadAllMessage == [type |-> "webExtReloadAllExtensions"]

BroadcastStoppingAtClosed(del, conns, message, n) ==
    [c \in Connections |->
        IF conns[c] = "open" /\ \A b \in 1..(c - 1) : conns[b] # "closed"
        THEN Append(del[c], [message |-> message, request |-> n])
        ELSE del[c]]

BroadcastTwice(del, conns, message, n) ==
    [c \in Connections |->
        IF conns[c] = "open"
        THEN del[c] \o <<[message |-> message, request |-> n],
                         [message |-> message, request |-> n]>>
        ELSE del[c]]

\* The server sends a control message to every connection that is open.
Broadcast(del, conns, message, n) ==
    [c \in Connections |->
        IF conns[c] = "open"
        THEN Append(del[c], [message |-> message, request |-> n])
        ELSE del[c]]

reloadBySourceDirMessageNamingDir(sourceDir) ==
    [type |-> "webExtReloadExtension", sourceDir |-> sourceDir]

\* The message of reloadExtensionBySourceDir(): the channel cannot name
\* one extension, so it is the reload-everything message.
reloadBySourceDirMessage(sourceDir) == ReloadAllMessage

\* Whether the channel is up: from run() until the teardown of exit().
ChannelUp == chromiumState \in {"running", "exiting"}

\* run(): the WebSocket server is started, then the browser is launched
\* with the companion extension and the user's extensions.
ChromiumExtensionRunner_run ==
    /\ chromiumState = "created"
    /\ chromiumState' = "running"
    /\ chromiumProcess' = "alive"
    /\ UNCHANGED <<killPending, connections, delivered, reloadRequests,
                   chromiumCallbacks, chromiumCleanupLog, exitLog,
                   notChromiumVars>>

\* The companion extension opens a connection to the server.
CompanionConnects(c) ==
    /\ ChannelUp
    /\ connections[c] = "none"
    /\ connections' = [connections EXCEPT ![c] = "open"]
    /\ UNCHANGED <<chromiumState, chromiumProcess, killPending, delivered,
                   reloadRequests, chromiumCallbacks, chromiumCleanupLog,
                   exitLog, notChromiumVars>>

\* A companion connection is closed.
CompanionCloses(c) ==
    /\ connections[c] = "open"
    /\ connections' = [connections EXCEPT ![c] = "closed"]
    /\ UNCHANGED <<chromiumState, chromiumProcess, killPending, delivered,
                   reloadRequests, chromiumCallbacks, chromiumCleanupLog,
                   exitLog, notChromiumVars>>

ChromiumExtensionRunner_reloadAllExtensions ==
    /\ ChannelUp
    /\ Len(reloadRequests) < MaxReloads
    /\ reloadRequests' = Append(reloadRequests,
           [op |-> "reloadAllExtensions", sourceDir |-> ""])
    /\ delivered' = Broadcast(delivered, connections, ReloadAllMessage,
                              Len(reloadRequests) + 1)
    /\ UNCHANGED <<chromiumState, chromiumProcess, killPending, connections,
                   chromiumCallbacks, chromiumCleanupLog, exitLog,
                   notChromiumVars>>

ChromiumExtensionRunner_reloadExtensionBySourceDir(sourceDir) ==
    /\ ChannelUp
    /\ Len(reloadRequests) < MaxReloads
    /\ reloadRequests' = Append(reloadRequests,
           [op |-> "reloadExtensionBySourceDir", sourceDir |-> sourceDir])
    /\ delivered' = Broadcast(delivered, connections,
                              reloadBySourceDirMessage(sourceDir),
                              Len(reloadRequests) + 1)
    /\ UNCHANGED <<chromiumState, chromiumProcess, killPending, connections,
                   chromiumCallbacks, chromiumCleanupLog, exitLog,
                   notChromiumVars>>

\* registerCleanup(callback): appended to the ordered list.  A callback is
\* modelled by whether it throws.
ChromiumExtensionRunner_registerCleanup(throws) ==
    /\ chromiumState # "exited"
    /\ Len(chromiumCallbacks) < MaxCallbacks
    /\ chromiumCallbacks' = Append(chromiumCallbacks, [throws |-> throws])
    /\ UNCHANGED <<chromiumState, chromiumProcess, killPending, connections,
                   delivered, reloadRequests, chromiumCleanupLog, exitLog,
                   notChromiumVars>>

Occurrences(log, event) == Cardinality({i \in DOMAIN log : log[i] = event})

\* exit() is idempotent: the teardown is run by the first call only.
exitRunsTeardown(state) == state \notin {"exiting", "exited"}

\* The teardown of exit(), up to its first await: the browser is killed if
\* it is still alive.
Teardown(origin) ==
    /\ chromiumState' = "exiting"
    /\ killPending' = (chromiumProcess = "alive")
    /\ exitLog' = exitLog \o <<origin, "teardown">> \o
                  (IF chromiumProcess = "alive" THEN <<"kill()">> ELSE <<>>)

\* exit() called by the user of the runner.
ChromiumExtensionRunner_exit ==
    /\ Occurrences(exitLog, "exit()") < MaxExitCalls
    /\ IF exitRunsTeardown(chromiumState)
       THEN Teardown("exit()")
       ELSE /\ exitLog' = Append(exitLog, "exit()")
            /\ UNCHANGED <<chromiumState, killPending>>
    /\ UNCHANGED <<chromiumProcess, connections, delivered, reloadRequests,
                   chromiumCallbacks, chromiumCleanupLog, notChromiumVars>>

closeCallsExitNever(state) == FALSE

closeCallsExitAlways(state) == TRUE

\* The 'close' listener calls exit() unless the runner is exiting already.
closeCallsExit(state) == state \notin {"exiting", "exited"}

\* The browser process emits 'close'.
ChromiumProcessCloses ==
    /\ chromiumProcess = "alive"
    /\ chromiumProcess' = "closed"
    /\ IF closeCallsExit(chromiumState)
       THEN /\ chromiumState' = "exiting"
            /\ killPending' = FALSE
            /\ exitLog' = exitLog \o <<"close", "exit() on close", "teardown">>
       ELSE /\ exitLog' = Append(exitLog, "close")
            /\ UNCHANGED <<chromiumState, killPending>>
    /\ UNCHANGED <<connections, delivered, reloadRequests, chromiumCallbacks,
                   chromiumCleanupLog, notChromiumVars>>

\* chromiumInstance.kill() resolves.
KillResolves ==
    /\ killPending
    /\ killPending' = FALSE
    /\ UNCHANGED <<chromiumState, chromiumProcess, connections, delivered,
                   reloadRequests, chromiumCallbacks, chromiumCleanupLog,
                   exitLog, notChromiumVars>>

RECURSIVE RunCallbacksUntilThrow(_, _)
RunCallbacksUntilThrow(callbacks, i) ==
    IF i > Len(callbacks)
    THEN <<>>
    ELSE IF callbacks[i].throws
    THEN <<i>>
    ELSE <<i>> \o RunCallbacksUntilThrow(callbacks, i + 1)

\* The cleanup callbacks are called in registration order; what one throws
\* is logged and the next is called.
RECURSIVE RunCallbacks(_, _)
RunCallbacks(callbacks, i) ==
    IF i > Len(callbacks)
    THEN <<>>
    ELSE <<i>> \o RunCallbacks(callbacks, i + 1)

\* The end of the teardown: the channel is closed, the runner is exited and
\* the cleanup callbacks are invoked.
TeardownCompletes ==
    /\ chromiumState = "exiting"
    /\ ~killPending
    /\ chromiumState' = "exited"
    /\ connections' = [c \in Connections |->
                          IF connections[c] = "open"
                          THEN "closed"
                          ELSE connections[c]]
    /\ chromiumCleanupLog' = chromiumCleanupLog \o
                             RunCallbacks(chromiumCallbacks, 1)
    /\ UNCHANGED <<chromiumProcess, killPending, delivered, reloadRequests,
                   chromiumCallbacks, exitLog, notChromiumVars>>

InitChromium ==
    /\ RetryIdle
    /\ extensionRunners = <<>>
    /\ CallIdle
    /\ CleanupIdle
    /\ RunIdle
    /\ ChromiumIdle
    /\ StrategyIdle
    /\ FirefoxIdle
    /\ FinderIdle

\* The reload-manager channel of a running runner.
NextChannel ==
    \/ ChromiumExtensionRunner_run
    \/ \E c \in Connections : CompanionConnects(c)
    \/ \E c \in Connections : CompanionCloses(c)
    \/ ChromiumExtensionRunner_reloadAllExtensions
    \/ \E sourceDir \in SourceDirs \cup {"/fake/sourceDir"} :
           ChromiumExtensionRunner_reloadExtensionBySourceDir(sourceDir)

SpecChannel == InitChromium /\ [][NextChannel]_vars

\* The life of the runner, from run() to the end of exit().
NextExit ==
    \/ ChromiumExtensionRunner_run
    \/ \E c \in Connections : CompanionConnects(c)
    \/ \E throws \in BOOLEAN : ChromiumExtensionRunner_registerCleanup(throws)
    \/ ChromiumExtensionRunner_exit
    \/ ChromiumProcessCloses
    \/ KillResolves
    \/ TeardownCompletes

SpecExit == InitChromium /\ [][NextExit]_vars

\* The kill of the browser and the closing of the server complete: the
\* process controller resolves kill() once the process has exited, or kills
\* it by force after a grace period.
SpecExitLive ==
    /\ SpecExit
    /\ WF_vars(KillResolves)
    /\ WF_vars(TeardownCompletes)

\* The cleanup callbacks, each once, in registration order.
EveryCallbackOnce == [i \in 1..Len(chromiumCallbacks) |-> i]

\* C12: the cleanup callbacks registered on a runner are each invoked
\* exactly once, in registration order, when the runner exits, and not
\* before; a callback that throws does not keep the later ones from being
\* invoked.
C12_CleanupCallbacksOnceInOrder ==
    /\ chromiumState = "exited" => chromiumCleanupLog = EveryCallbackOnce
    /\ chromiumState # "exited" => chromiumCleanupLog = <<>>

C12_Witness ==
    /\ chromiumState = "exited"
    /\ Len(chromiumCallbacks) = 2
    /\ chromiumCallbacks[1].throws
    /\ chromiumCleanupLog = <<1, 2>>

\* The browser emitted 'close' after exit() had been called.
ClosedAfterExitCalled ==
    \E i, j \in DOMAIN exitLog :
        /\ i < j
        /\ exitLog[i] = "exit()"
        /\ exitLog[j] = "close"

\* C13: when the browser emits 'close' while a call of exit() is in
\* progress, the 'close' listener does not enter exit() again, the teardown
\* is run once and the browser is killed exactly once.
C13_CloseWhileExitingDoesNotExitAgain ==
    ClosedAfterExitCalled =>
        /\ Occurrences(exitLog, "exit() on close") = 0
        /\ Occurrences(exitLog, "teardown") = 1
        /\ Occurrences(exitLog, "kill()") = 1

C13_Witness ==
    /\ exitLog = <<"exit()", "teardown", "kill()", "close">>
    /\ chromiumState = "exited"

\* A reload request is made in this step.
ReloadRequested == Len(reloadRequests') = Len(reloadRequests) + 1

LastRequest == reloadRequests[Len(reloadRequests)]

\* This step sends connection c the reload-everything message, once.
ReloadAllSentTo(c) ==
    delivered'[c] = Append(delivered[c],
        [message |-> [type |-> "webExtReloadAllExtensions"],
         request |-> Len(reloadRequests')])

\* C14: once a companion connection is closed, every later reload
\* broadcast is still delivered to every connection that remains open.
C14_ClosedConnectionDoesNotBlock ==
    [][(ReloadRequested /\ \E c \in Connections : connections[c] = "closed")
       => \A c \in Connections : connections[c] = "open" => ReloadAllSentTo(c)
      ]_vars

C14_Witness ==
    \E c, b \in Connections :
        /\ connections[c] = "closed"
        /\ connections[b] = "open"
        /\ delivered[c] # <<>>
        /\ delivered[b] # <<>>
        /\ delivered[b][Len(delivered[b])].request >
           delivered[c][Len(delivered[c])].request

\* C15: a call of reloadAllExtensions() sends exactly one message
\* {type: "webExtReloadAllExtensions"} to every open connection, and sends
\* nothing else.
C15_ReloadAllSendsOneMessagePerConnection ==
    [][(ReloadRequested /\ LastRequest'.op = "reloadAllExtensions")
       => \A c \in Connections :
              IF connections[c] = "open"
              THEN ReloadAllSentTo(c)
              ELSE delivered'[c] = delivered[c]
      ]_vars

C15_Witness ==
    /\ reloadRequests # <<>>
    /\ LastRequest.op = "reloadAllExtensions"
    /\ \A c \in Connections :
           /\ connections[c] = "open"
           /\ delivered[c] # <<>>
           /\ delivered[c][Len(delivered[c])].request = Len(reloadRequests)

\* C16: reloadExtensionBySourceDir(dir) does what reloadAllExtensions()
\* does, whatever dir is: the reload-everything message goes to every open
\* connection.
C16_ReloadBySourceDirReloadsAll ==
    [][(ReloadRequested /\ LastRequest'.op = "reloadExtensionBySourceDir")
       => delivered' = Broadcast(delivered, connections,
                                 [type |-> "webExtReloadAllExtensions"],
                                 Len(reloadRequests'))
      ]_vars

C16_Witness ==
    /\ reloadRequests # <<>>
    /\ LastRequest.op = "reloadExtensionBySourceDir"
    /\ LastRequest.sourceDir = "/fake/sourceDir"
    /\ \E c \in Connections :
           /\ connections[c] = "open"
           /\ delivered[c] # <<>>
           /\ delivered[c][Len(delivered[c])] =
                  [message |-> [type |-> "webExtReloadAllExtensions"],
                   request |-> Len(reloadRequests)]

\* The browser emitted 'close' before any call of exit().
ClosedOnItsOwn ==
    \E j \in DOMAIN exitLog :
        /\ exitLog[j] = "close"
        /\ \A i \in 1..(j - 1) : exitLog[i] # "exit()"

\* C17: when the browser closes on its own while the runner is running,
\* the runner still becomes exited and every registered cleanup callback is
\* eventually invoked.
C17_ClosedBrowserLeadsToCleanup ==
    ClosedOnItsOwn ~>
        (chromiumState = "exited" /\ chromiumCleanupLog = EveryCallbackOnce)

C17_Witness ==
    /\ ClosedOnItsOwn
    /\ Occurrences(exitLog, "exit()") = 0
    /\ chromiumState = "exited"
    /\ chromiumCallbacks # <<>>
    /\ chromiumCleanupLog = EveryCallbackOnce

(***************************************************************************)
(* defaultReloadStrategy and defaultWatcherCreator of                      *)
(* src/extension-runners/index.js: the source watcher and the keypress     *)
(* loop.  stdin emits the keypress events of one chunk of input one after  *)
(* the other, synchronously; the continuation of the loop's await is a     *)
(* microtask, which runs once the whole chunk has been emitted.            *)
(***************************************************************************)
MaxFileChanges == 2
MaxBursts == 2
MaxBurstLen == 2

StrategySourceDirs == {"/src/ext", "/src/other"}

StrategyParams ==
    [noInput : BOOLEAN, isTTY : BOOLEAN, sourceDir : StrategySourceDirs]

\* The files whose change the file system may report.
Files == {"manifest.json", "web-ext-artifacts/ext.zip"}

\* fileFilter.wantFile() of ../util/file-filter: the files of the artifacts
\* directory and the ignored files are not wanted.
wantFile(file) == file # "web-ext-artifacts/ext.zip"

\* shouldWatchFile of defaultWatcherCreator.
shouldWatchFile(file) == wantFile(file)

RunnerCall(method, sourceDir) == [method |-> method, sourceDir |-> sourceDir]

reloadExtensionReloadingAll(watchedSourceDir) ==
    <<RunnerCall("reloadAllExtensions", "")>>

\* The reloadExtension callback defaultReloadStrategy gives the watcher:
\* the calls it makes on the runner.
reloadExtension(watchedSourceDir) ==
    <<RunnerCall("reloadExtensionBySourceDir", watchedSourceDir)>>

\* onChange of defaultWatcherCreator.
onChange(sourceDir) == reloadExtension(sourceDir)

\* The source watcher of ../watcher: it calls onChange for a change of a
\* file that shouldWatchFile accepts, and does not watch the others.
onSourceChange(file, sourceDir) ==
    IF shouldWatchFile(file) THEN onChange(sourceDir) ELSE <<>>

Keys == {"r", "z", "ctrl-c", "x"}

\* The chunks of input: one keypress or more.
RECURSIVE BurstsOfLen(_)
BurstsOfLen(n) ==
    IF n = 0
    THEN {<<>>}
    ELSE {Append(b, k) : b \in BurstsOfLen(n - 1), k \in Keys}

Bursts == UNION {BurstsOfLen(n) : n \in 1..MaxBurstLen}

\* stdin.once('keypress', ...): the listener hears the first keypress
\* emitted while it is attached, and is detached by it.
Heard(burst, listening) == IF listening THEN <<burst[1]>> ELSE <<>>

\* Plausible bug: raw mode is not switched on again when the process is
\* resumed.
LoopIterationLeavingCookedMode(keyPressed) ==
    IF keyPressed = "ctrl-c"
    THEN [userExit |-> TRUE, calls |-> <<>>, signals |-> <<>>,
          terminal |-> <<>>]
    ELSE IF keyPressed = "z"
    THEN [userExit |-> FALSE, calls |-> <<>>, signals |-> <<"SIGTSTP">>,
          terminal |-> <<"setRawMode(false)", "kill(SIGTSTP)">>]
    ELSE IF keyPressed = "r"
    THEN [userExit |-> FALSE,
          calls |-> <<RunnerCall("reloadAllExtensions", "")>>,
          signals |-> <<>>, terminal |-> <<>>]
    ELSE [userExit |-> FALSE, calls |-> <<>>, signals |-> <<>>,
          terminal |-> <<>>]

\* One iteration of the while loop, resumed with keyPressed.
LoopIteration(keyPressed) ==
    IF keyPressed = "ctrl-c"
    THEN [userExit |-> TRUE, calls |-> <<>>, signals |-> <<>>,
          terminal |-> <<>>]
    ELSE IF keyPressed = "z"
    THEN [userExit |-> FALSE, calls |-> <<>>, signals |-> <<"SIGTSTP">>,
          terminal |-> <<"setRawMode(false)", "kill(SIGTSTP)",
                         "setRawMode(true)">>]
    ELSE IF keyPressed = "r"
    THEN [userExit |-> FALSE,
          calls |-> <<RunnerCall("reloadAllExtensions", "")>>,
          signals |-> <<>>, terminal |-> <<>>]
    ELSE [userExit |-> FALSE, calls |-> <<>>, signals |-> <<>>,
          terminal |-> <<>>]

\* The loop resumed with each of the keys in turn, until userExit.
RECURSIVE LoopIterations(_)
LoopIterations(keys) ==
    IF keys = <<>>
    THEN [userExit |-> FALSE, calls |-> <<>>, signals |-> <<>>,
          terminal |-> <<>>]
    ELSE LET first == LoopIteration(Head(keys))
             rest == LoopIterations(Tail(keys))
         IN  IF first.userExit
             THEN [userExit |-> TRUE,
                   calls |-> first.calls \o
                             <<RunnerCall("exit", "")>>,
                   signals |-> first.signals,
                   terminal |-> first.terminal]
             ELSE [userExit |-> rest.userExit,
                   calls |-> first.calls \o rest.calls,
                   signals |-> first.signals \o rest.signals,
                   terminal |-> first.terminal \o rest.terminal]

\* Plausible bug: the noInput option is not looked at.
AllowInputWhateverNoInput == TRUE

AllowInput == ~strategy.noInput

\* stdin.setRawMode(): the mode stdin is in once the calls of the log were
\* made, the last call deciding.
RECURSIVE RawModeAfter(_, _)
RawModeAfter(mode, calls) ==
    IF calls = <<>>
    THEN mode
    ELSE RawModeAfter(CASE Head(calls) = "setRawMode(true)" -> TRUE
                        [] Head(calls) = "setRawMode(false)" -> FALSE
                        [] OTHER -> mode,
                      Tail(calls))

\* The reload promises a sequence of calls on the runner starts.
ReloadsStarted(calls) ==
    Cardinality({i \in DOMAIN calls :
        calls[i].method \in {"reloadAllExtensions",
                             "reloadExtensionBySourceDir"}})

\* Plausible bug: `await extensionRunner.reloadAllExtensions()`, which keeps
\* the loop from its next await until the reload has settled.
AwaitsNextKeyOnceReloaded(done) == ~done.userExit /\ done.calls = <<>>

\* Whether the loop is back at `await once('keypress')` after the
\* iterations: reloadAllExtensions() is called without await, so only
\* userExit ends the loop.
AwaitsNextKey(done) == ~done.userExit

\* defaultReloadStrategy(): the watcher, the cleanup callback and, when
\* input is allowed and stdin is a terminal, raw mode and the keypress
\* loop, which runs up to its first await before any input is read.
defaultReloadStrategy_runners(params) ==
    /\ strategy = Undefined
    /\ strategy' = params
    /\ sourceWatcher' = "open"
    /\ runnerCalls' = Append(runnerCalls, RunnerCall("registerCleanup", ""))
    /\ IF ~params.noInput /\ params.isTTY
       THEN /\ terminalLog' = Append(terminalLog, "setRawMode(true)")
            /\ rawMode' = RawModeAfter(rawMode, <<"setRawMode(true)">>)
            /\ loop' = "waiting"
            /\ keypressListener' = TRUE
       ELSE UNCHANGED <<rawMode, loop, keypressListener, terminalLog>>
    /\ UNCHANGED <<stdinPaused, signals, fileEvents, keysEmitted,
                   reloadsPending, notStrategyVars>>

\* The file system reports a change of a file of the source directory.
FileChanged(file) ==
    /\ sourceWatcher = "open"
    /\ Len(fileEvents) < MaxFileChanges
    /\ fileEvents' = Append(fileEvents, file)
    /\ runnerCalls' = runnerCalls \o onSourceChange(file, strategy.sourceDir)
    /\ reloadsPending' = reloadsPending +
           ReloadsStarted(onSourceChange(file, strategy.sourceDir))
    /\ UNCHANGED <<strategy, sourceWatcher, rawMode, stdinPaused,
                   keypressListener, loop, signals, keysEmitted,
                   terminalLog, notStrategyVars>>

\* stdin reads a chunk of input and emits its keypress events, whoever
\* called readline.emitKeypressEvents() on it; then the loop, if it is
\* running, resumes with the key its listener heard.  The suspend key
\* leaves raw mode on again once the process is resumed.
EmitKeypresses(burst) ==
    /\ strategy # Undefined
    /\ ~stdinPaused
    /\ Len(keysEmitted) + Len(burst) <= MaxBursts * MaxBurstLen
    /\ keysEmitted' = keysEmitted \o burst
    /\ LET done == LoopIterations(Heard(burst, keypressListener))
       IN  /\ runnerCalls' = runnerCalls \o done.calls
           /\ signals' = signals \o done.signals
           /\ terminalLog' = terminalLog \o done.terminal
           /\ rawMode' = RawModeAfter(rawMode, done.terminal)
           /\ reloadsPending' = reloadsPending + ReloadsStarted(done.calls)
           /\ loop' = IF done.userExit THEN "stopped" ELSE loop
           /\ keypressListener' = (keypressListener /\ AwaitsNextKey(done))
    /\ UNCHANGED <<strategy, sourceWatcher, stdinPaused, fileEvents,
                   notStrategyVars>>

\* The keypress events of the stdin on which defaultReloadStrategy() has
\* called readline.emitKeypressEvents().
Keypresses(burst) ==
    /\ strategy # Undefined
    /\ AllowInput /\ strategy.isTTY
    /\ EmitKeypresses(burst)

\* The runner exits and invokes the cleanup callback registered on it.
RunnerCleansUp ==
    /\ sourceWatcher = "open"
    /\ sourceWatcher' = "closed"
    /\ stdinPaused' = AllowInput
    /\ UNCHANGED <<strategy, rawMode, keypressListener, loop, runnerCalls,
                   signals, fileEvents, keysEmitted, terminalLog,
                   reloadsPending, notStrategyVars>>

InitStrategy ==
    /\ RetryIdle
    /\ extensionRunners = <<>>
    /\ CallIdle
    /\ CleanupIdle
    /\ RunIdle
    /\ ChromiumIdle
    /\ StrategyIdle
    /\ FirefoxIdle
    /\ FinderIdle

\* The source watcher.
NextWatch ==
    \/ \E params \in StrategyParams : defaultReloadStrategy_runners(params)
    \/ \E file \in Files : FileChanged(file)
    \/ RunnerCleansUp

SpecWatch == InitStrategy /\ [][NextWatch]_vars

\* The keypress loop.
NextKeys ==
    \/ \E params \in StrategyParams : defaultReloadStrategy_runners(params)
    \/ \E burst \in Bursts : Keypresses(burst)
    \/ RunnerCleansUp

SpecKeys == InitStrategy /\ [][NextKeys]_vars

CallsOfMethod(method) ==
    {i \in DOMAIN runnerCalls : runnerCalls[i].method = method}

\* C18: with input allowed and stdin a terminal, a Ctrl-C keypress emitted
\* once the keypress loop has started, even right after another keypress
\* of the same chunk of input, makes the loop call extensionRunner.exit()
\* exactly once; after that the loop is stopped: no later keypress reloads
\* or exits again.
C18_CtrlCExitsOnce ==
    /\ (\E i \in DOMAIN keysEmitted : keysEmitted[i] = "ctrl-c") =>
           /\ Cardinality(CallsOfMethod("exit")) = 1
           /\ loop = "stopped"
    /\ \A i \in CallsOfMethod("exit") :
           \A j \in DOMAIN runnerCalls :
               j > i => runnerCalls[j].method
                            \notin {"exit", "reloadAllExtensions"}

\* C19: every change of a file that passes the ignore filter makes exactly
\* one reloadExtensionBySourceDir call on the runner, with the source
\* directory of the watcher; a change of a file the filter rejects makes
\* none.
C19_OneReloadPerWatchedChange ==
    /\ Cardinality(CallsOfMethod("reloadExtensionBySourceDir")) =
       Cardinality({i \in DOMAIN fileEvents : wantFile(fileEvents[i])})
    /\ \A i \in CallsOfMethod("reloadExtensionBySourceDir") :
           runnerCalls[i].sourceDir = strategy.sourceDir

C19_Witness ==
    /\ fileEvents = <<"manifest.json", "web-ext-artifacts/ext.zip">>
    /\ Cardinality(CallsOfMethod("reloadExtensionBySourceDir")) = 1
    /\ strategy.sourceDir = "/src/other"

\* The cleanup callback registered by defaultReloadStrategy() has run.
CleanupCallbackRan == sourceWatcher = "closed"

\* C26: once the runner has invoked the cleanup callback of the reload
\* strategy, the watcher is stopped and the terminal mode is restored: if
\* defaultReloadStrategy() had put stdin in raw mode, raw mode is off
\* again.
C26_CleanupRestoresTerminal ==
    CleanupCallbackRan => /\ sourceWatcher = "closed"
                          /\ rawMode = FALSE

\* The watcher and the keypress loop together, one key per input chunk.
NextExitRace ==
    \/ \E params \in StrategyParams : defaultReloadStrategy_runners(params)
    \/ \E file \in Files : FileChanged(file)
    \/ \E key \in Keys : Keypresses(<<key>>)
    \/ RunnerCleansUp

SpecExitRace == InitStrategy /\ [][NextExitRace]_vars

ReloadMethods == {"reloadAllExtensions", "reloadExtensionBySourceDir"}

\* C28: once the keypress loop has called extensionRunner.exit(), no
\* reloadAllExtensions() and no reloadExtensionBySourceDir() is called on
\* the runner any more, whether for a key or for a file change that
\* arrives before the cleanup callback has closed the watcher.
C28_NoReloadAfterExit ==
    \A i, j \in DOMAIN runnerCalls :
        (runnerCalls[i].method = "exit" /\ i < j)
            => runnerCalls[j].method \notin ReloadMethods

\* A reload promise of the runner settles.  Nothing waits for it: the
\* watcher callback and the keypress loop both drop the promise.
ReloadSettles ==
    /\ reloadsPending > 0
    /\ reloadsPending' = reloadsPending - 1
    /\ UNCHANGED <<strategy, sourceWatcher, rawMode, stdinPaused,
                   keypressListener, loop, runnerCalls, signals, fileEvents,
                   keysEmitted, terminalLog, notStrategyVars>>

MaxKeysWhilePending == 3

\* The watcher and the keypress loop with reloads that settle at any time
\* or never, one key per input chunk.
NextPending ==
    /\ \/ \E params \in StrategyParams : defaultReloadStrategy_runners(params)
       \/ \E file \in Files : FileChanged(file)
       \/ \E key \in Keys : Keypresses(<<key>>)
       \/ ReloadSettles
       \/ RunnerCleansUp
    /\ Len(keysEmitted') <= MaxKeysWhilePending

SpecPending == InitStrategy /\ [][NextPending]_vars

\* C32: the keypress loop never waits for a reload to settle.  Whatever the
\* number of reloads still pending, an 'r' keypress the loop waits for
\* starts another reloadAllExtensions() and a Ctrl-C calls exit(); a change
\* of a watched file is dispatched to the runner while the loop waits for
\* a key; and defaultReloadStrategy() returns with the loop waiting, no
\* key having been read.
C32_LoopNeverWaitsForReload ==
    [][/\ (loop = "waiting" /\ ~stdinPaused
               /\ keysEmitted' = Append(keysEmitted, "r")) =>
           /\ runnerCalls' =
                  Append(runnerCalls, RunnerCall("reloadAllExtensions", ""))
           /\ reloadsPending' = reloadsPending + 1
           /\ loop' = "waiting"
           /\ keypressListener'
       /\ (loop = "waiting" /\ ~stdinPaused
               /\ keysEmitted' = Append(keysEmitted, "ctrl-c")) =>
           /\ runnerCalls' = Append(runnerCalls, RunnerCall("exit", ""))
           /\ loop' = "stopped"
       /\ \A file \in Files :
              (loop = "waiting" /\ sourceWatcher = "open" /\ wantFile(file)
                   /\ fileEvents' = Append(fileEvents, file)) =>
                  /\ runnerCalls' =
                         Append(runnerCalls,
                                RunnerCall("reloadExtensionBySourceDir",
                                           strategy.sourceDir))
                  /\ loop' = "waiting"
       /\ (strategy = Undefined /\ strategy' # Undefined) =>
              /\ keysEmitted' = <<>>
              /\ (~strategy'.noInput /\ strategy'.isTTY) =>
                     (loop' = "waiting" /\ keypressListener')
    ]_vars

\* Two 'r' keypresses started two reloads, none of which has settled, a
\* file changed meanwhile, and Ctrl-C was answered with exit().
C32_Witness ==
    /\ keysEmitted = <<"r", "r", "ctrl-c">>
    /\ reloadsPending = 3
    /\ runnerCalls =
           <<RunnerCall("registerCleanup", ""),
             RunnerCall("reloadAllExtensions", ""),
             RunnerCall("reloadExtensionBySourceDir", strategy.sourceDir),
             RunnerCall("reloadAllExtensions", ""),
             RunnerCall("exit", "")>>

\* C33: on the suspend key the loop switches raw mode off, sends SIGTSTP to
\* its own process and switches raw mode on again, in that order, and calls
\* neither a reload nor exit() on the runner; so raw mode is on whenever
\* the loop waits for the next keypress.
C33_SuspendRestoresRawMode ==
    /\ [](loop = "waiting" => rawMode)
    /\ [][(loop = "waiting" /\ ~stdinPaused
               /\ keysEmitted' = Append(keysEmitted, "z")) =>
              /\ terminalLog' = terminalLog \o
                     <<"setRawMode(false)", "kill(SIGTSTP)",
                       "setRawMode(true)">>
              /\ signals' = Append(signals, "SIGTSTP")
              /\ runnerCalls' = runnerCalls
              /\ reloadsPending' = reloadsPending
              /\ loop' = "waiting"
       ]_vars

\* The process was suspended twice and the loop waits for a key again.
C33_Witness ==
    /\ keysEmitted = <<"z", "z">>
    /\ terminalLog = <<"setRawMode(true)",
                       "setRawMode(false)", "kill(SIGTSTP)",
                       "setRawMode(true)",
                       "setRawMode(false)", "kill(SIGTSTP)",
                       "setRawMode(true)">>
    /\ loop = "waiting"
    /\ rawMode
    /\ CallsOfMethod("reloadAllExtensions") = {}
    /\ CallsOfMethod("exit") = {}

\* The strategy with a stdin that emits keypress events whatever the
\* options are, one key per input chunk.
NextInput ==
    /\ \/ \E params \in StrategyParams : defaultReloadStrategy_runners(params)
       \/ \E key \in Keys : EmitKeypresses(<<key>>)
       \/ \E file \in Files : FileChanged(file)
       \/ RunnerCleansUp
    /\ Len(keysEmitted') <= MaxKeysWhilePending

SpecInput == InitStrategy /\ [][NextInput]_vars

\* C34: defaultReloadStrategy() creates one watcher and registers one
\* cleanup callback on the runner whatever noInput is; the callback closes
\* the watcher, and pauses stdin exactly when noInput is false.  With
\* noInput true or a stdin that is not a terminal, stdin is never put in
\* raw mode and no keypress listener is attached, so that no keypress makes
\* the loop reload or exit.
C34_NoInputNoKeypressLoop ==
    strategy # Undefined =>
        /\ sourceWatcher \in {"open", "closed"}
        /\ Cardinality(CallsOfMethod("registerCleanup")) = 1
        /\ CleanupCallbackRan =>
               /\ sourceWatcher = "closed"
               /\ stdinPaused <=> ~strategy.noInput
        /\ ~CleanupCallbackRan => ~stdinPaused
        /\ (strategy.noInput \/ ~strategy.isTTY) =>
               /\ ~rawMode
               /\ terminalLog = <<>>
               /\ ~keypressListener
               /\ loop = "none"
               /\ CallsOfMethod("reloadAllExtensions") = {}
               /\ CallsOfMethod("exit") = {}
               /\ signals = <<>>

\* With noInput set on a terminal, 'r' and Ctrl-C were typed and nothing
\* was called on the runner but registerCleanup; the cleanup callback then
\* closed the watcher and left stdin alone.
C34_Witness ==
    /\ strategy # Undefined
    /\ strategy.noInput
    /\ strategy.isTTY
    /\ keysEmitted = <<"r", "ctrl-c">>
    /\ runnerCalls = <<RunnerCall("registerCleanup", "")>>
    /\ sourceWatcher = "closed"
    /\ ~stdinPaused

(***************************************************************************)
(* defaultRemotePortFinder of src/firefox/index.js: a port is free when    *)
(* the probe connection to it is refused.                                  *)
(***************************************************************************)
MaxFinders == 2

\* new WebExtError(`Cannot listen on port ${portToTry} because it's in
\* use`): an error without a code property.
PortInUseError(portToTry) ==
    [class |-> "WebExtError", code |-> "NONE",
     message |-> <<"Cannot listen on port", portToTry,
                   "because it's in use">>]

\* Plausible bug: .catch(() => portToTry), which takes every error for a
\* refused connection.
remotePortFinder_catchAnyError(error, portToTry) ==
    [pc |-> "resolved", value |-> [port |-> portToTry]]

\* .catch(onlyErrorsWithCode('ECONNREFUSED', () => portToTry)): the promise
\* of the finder once `error` has reached the catch callback.
remotePortFinder_catch(error, portToTry) ==
    IF onlyErrorsWithCode("ECONNREFUSED", error)
    THEN [pc |-> "resolved", value |-> [port |-> portToTry]]
    ELSE [pc |-> "rejected", value |-> error]

\* defaultRemotePortFinder({portToTry}): connectToFirefox(portToTry) is
\* called and pending.
defaultRemotePortFinder(portToTry) ==
    /\ Len(finders) < MaxFinders
    /\ finders' = Append(finders,
           [portToTry |-> portToTry, pc |-> "connecting",
            probe |-> [state |-> "pending"], disconnects |-> 0,
            value |-> Undefined])
    /\ UNCHANGED notFinderVars

\* connectToFirefox() resolves: the then-callback disconnects the probe
\* client and throws the port-in-use error, which the catch callback gets.
ProbeConnects(k) ==
    /\ k \in DOMAIN finders
    /\ finders[k].pc = "connecting"
    /\ LET settled == remotePortFinder_catch(
                          PortInUseError(finders[k].portToTry),
                          finders[k].portToTry)
       IN  finders' = [finders EXCEPT
               ![k].probe = [state |-> "connected"],
               ![k].disconnects = @ + 1,
               ![k].pc = settled.pc,
               ![k].value = settled.value]
    /\ UNCHANGED notFinderVars

\* connectToFirefox() rejects: the then-callback is skipped and the catch
\* callback gets the connection error.
ProbeFails(k, code) ==
    /\ k \in DOMAIN finders
    /\ finders[k].pc = "connecting"
    /\ LET error == ConnectError(code, k)
           settled == remotePortFinder_catch(error, finders[k].portToTry)
       IN  finders' = [finders EXCEPT
               ![k].probe = [state |-> "failed", error |-> error],
               ![k].pc = settled.pc,
               ![k].value = settled.value]
    /\ UNCHANGED notFinderVars

InitFinder ==
    /\ RetryIdle
    /\ extensionRunners = <<>>
    /\ CallIdle
    /\ CleanupIdle
    /\ RunIdle
    /\ ChromiumIdle
    /\ StrategyIdle
    /\ FirefoxIdle
    /\ FinderIdle

NextFinder ==
    \/ \E portToTry \in RemotePorts : defaultRemotePortFinder(portToTry)
    \/ \E k \in 1..MaxFinders : ProbeConnects(k)
    \/ \E k \in 1..MaxFinders, code \in ErrorCodes : ProbeFails(k, code)

SpecFinder == InitFinder /\ [][NextFinder]_vars

\* C38: defaultRemotePortFinder() resolves with portToTry exactly when the
\* probe connection is refused (ECONNREFUSED); when the probe connects, the
\* probe client is disconnected once and the finder fails with the
\* port-in-use WebExtError, which is not taken for a refusal; any other
\* connection error is the error the finder fails with.
C38_PortFreeIffProbeRefused ==
    \A k \in DOMAIN finders :
        LET f == finders[k]
            refused == /\ f.probe.state = "failed"
                       /\ f.probe.error.code = "ECONNREFUSED"
        IN  /\ f.pc = "connecting" <=> f.probe.state = "pending"
            /\ f.pc = "resolved" <=> refused
            /\ f.pc = "resolved" => f.value = [port |-> f.portToTry]
            /\ f.probe.state = "connected" =>
                   /\ f.disconnects = 1
                   /\ f.pc = "rejected"
                   /\ f.value = PortInUseError(f.portToTry)
            /\ f.probe.state # "connected" => f.disconnects = 0
            /\ (f.probe.state = "failed" /\ ~refused) =>
                   /\ f.pc = "rejected"
                   /\ f.value = f.probe.error

\* One finder found its port in use and another found its port free.
C38_Witness ==
    /\ Len(finders) = 2
    /\ finders[1].probe.state = "connected"
    /\ finders[1].pc = "rejected"
    /\ finders[1].disconnects = 1
    /\ finders[2].pc = "resolved"
    /\ finders[2].value = [port |-> finders[2].portToTry]

====
